---- MODULE Spec2Model ----
(***************************************************************************)
(* Model of the pc_project computation core (pandas 2.2 semantics):        *)
(*   - metrics.py       : _pic_calc, _dis_calc, _xnpv, xirr, metrics       *)
(*   - fund_metrics.py  : clean_data_fund, return_fund_info,               *)
(*                        expand_and_join_curve, calc_monthly_fee          *)
(*   - level_merge.py   : merge_deal_level, assign_fund_net_metrics        *)
(*   - clean_cash_flow.py, irr_calc/cash_flow_adjust.py, irr_calc/utils.py *)
(*                      : _cash_flow_sign_convert, adjust_cash_flow,       *)
(*                        stack_fund_fees_into_master                      *)
(* A table (DataFrame) is a sequence of records, one record per row.  A    *)
(* null of a text column is the string NaN, a numeric cell is <<v>> and a  *)
(* null numeric cell is <<>>.  Dates are integers YYYYMMDD.  Money and     *)
(* rates are exact integers over stated denominators (see the leverage     *)
(* section), so that products and quotients are computed without rounding. *)
(***************************************************************************)
EXTENDS Integers, Sequences, FiniteSets, TLC

VARIABLES pc, mdb, level, metrics_df, err,
          curvedb, fund_db, fund_level, fund_level_curve, fees,
          shock, shocked,
          call_cashflows, call_dates, irr, iter,
          l3, l2, l1, net, mldb, rollup,
          columns, cash_flow, cashflow_df_cleaned, combined

vars == <<pc, mdb, level, metrics_df, err,
          curvedb, fund_db, fund_level, fund_level_curve, fees,
          shock, shocked, call_cashflows, call_dates, irr, iter,
          l3, l2, l1, net, mldb, rollup,
          columns, cash_flow, cashflow_df_cleaned, combined>>

\* the variables of the rate-shock rerun, of a single xirr call, of the hierarchy
\* merge and of the ledger's lifecycle (the columns of mdb, the ledger as ingested,
\* after sign normalization and after the financing rows are appended); each
\* specification leaves the groups it does not use at their idle values
shockVars == <<shock, shocked>>
xirrVars == <<call_cashflows, call_dates, irr, iter>>
mergeVars == <<l3, l2, l1, net, mldb, rollup>>
ledgerVars == <<columns, cash_flow, cashflow_df_cleaned, combined>>

\* the columns metrics reads
LedgerColumns == {"entity_id", "deal_id", "fund", "amount", "asof"}

ShockIdle == shock = 0 /\ shocked = <<>>
XirrIdle == call_cashflows = <<>> /\ call_dates = <<>> /\ irr = <<>> /\ iter = 0
MergeIdle ==
    l3 = <<>> /\ l2 = <<>> /\ l1 = <<>> /\ net = <<>> /\ mldb = <<>> /\ rollup = <<>>
LedgerIdle ==
    /\ columns = LedgerColumns
    /\ cash_flow = <<>> /\ cashflow_df_cleaned = <<>> /\ combined = <<>>

(***************************************************************************)
(* Cells                                                                   *)
(***************************************************************************)
NaN == "NaN"
NaNnum == <<>>
Num(v) == <<v>>
Inf == <<1, 0>>
IsNum(c) == Len(c) = 1

Abs(x) == IF x < 0 THEN -x ELSE x

RECURSIVE Gcd(_, _)
Gcd(a, b) == IF b = 0 THEN a ELSE Gcd(b, a % b)

\* float division of two numeric cells: x/0 is inf, 0/0 and null operands are NaN;
\* a finite quotient is the reduced fraction <<numerator, denominator>>
DivZeroToNaN(a, b) ==
    IF ~IsNum(a) \/ ~IsNum(b) THEN NaNnum
    ELSE IF b[1] = 0 THEN NaNnum
    ELSE LET g == Gcd(Abs(a[1]), Abs(b[1]))
             s == IF b[1] < 0 THEN -1 ELSE 1
         IN  <<(s * a[1]) \div g, (s * b[1]) \div g>>

Div(a, b) ==
    IF ~IsNum(a) \/ ~IsNum(b) THEN NaNnum
    ELSE IF b[1] = 0
         THEN (IF a[1] = 0 THEN NaNnum ELSE IF a[1] > 0 THEN Inf ELSE <<-1, 0>>)
    ELSE LET g == Gcd(Abs(a[1]), Abs(b[1]))
             s == IF b[1] < 0 THEN -1 ELSE 1
         IN  <<(s * a[1]) \div g, (s * b[1]) \div g>>

(***************************************************************************)
(* Ordering of identifiers (pandas sorts group and join keys; nulls last)  *)
(***************************************************************************)
IdOrder == <<"D1", "D2", "E1", "E2", "E3", "F1", "F2", NaN>>
Ord(s) == CHOOSE i \in 1..Len(IdOrder) : IdOrder[i] = s

KeyLess(a, b) ==
    \E i \in 1..Len(a) :
        /\ \A j \in 1..(i - 1) : a[j] = b[j]
        /\ Ord(a[i]) < Ord(b[i])

RECURSIVE SortKeys(_)
SortKeys(S) ==
    IF S = {} THEN <<>>
    ELSE LET m == CHOOSE x \in S : \A y \in S \ {x} : KeyLess(x, y)
         IN  <<m>> \o SortKeys(S \ {m})

Range(s) == {s[i] : i \in DOMAIN s}

RECURSIVE SumAmount(_)
SumAmount(s) == IF s = <<>> THEN 0 ELSE Head(s).amount + SumAmount(Tail(s))

RECURSIVE Flatten(_)
Flatten(ss) == IF ss = <<>> THEN <<>> ELSE Head(ss) \o Flatten(Tail(ss))

(***************************************************************************)
(* Calendar (pandas offsets on dates YYYYMMDD)                             *)
(***************************************************************************)
NaT == 0
YearOf(d) == d \div 10000
MonthOf(d) == (d \div 100) % 100
DayOf(d) == d % 100
MkDate(y, m, d) == y * 10000 + m * 100 + d

IsLeap(y) == (y % 4 = 0 /\ y % 100 # 0) \/ y % 400 = 0
DaysInMonth(y, m) ==
    IF m = 2 THEN (IF IsLeap(y) THEN 29 ELSE 28)
    ELSE IF m \in {4, 6, 9, 11} THEN 30 ELSE 31

\* the month n months after (before, n < 0) month m of year y, as months since year 0
MonthIndex(y, m) == y * 12 + (m - 1)
IndexYear(k) == k \div 12
IndexMonth(k) == (k % 12) + 1

\* date + pd.offsets.MonthEnd(n)
MonthEnd(d, n) ==
    LET last == DaysInMonth(YearOf(d), MonthOf(d))
        n1 == IF n > 0 /\ DayOf(d) < last THEN n - 1
              ELSE IF n <= 0 /\ DayOf(d) > last THEN n + 1 ELSE n
        k == MonthIndex(YearOf(d), MonthOf(d)) + n1
    IN  MkDate(IndexYear(k), IndexMonth(k), DaysInMonth(IndexYear(k), IndexMonth(k)))

\* date + pd.offsets.MonthBegin(n)
MonthBegin(d, n) ==
    LET n1 == IF n > 0 /\ DayOf(d) < 1 THEN n - 1
              ELSE IF n <= 0 /\ DayOf(d) > 1 THEN n + 1 ELSE n
        k == MonthIndex(YearOf(d), MonthOf(d)) + n1
    IN  MkDate(IndexYear(k), IndexMonth(k), 1)

\* date + pd.DateOffset(days=n), n >= 0
RECURSIVE AddDays(_, _)
AddDays(d, n) ==
    IF n = 0 THEN d
    ELSE IF DayOf(d) < DaysInMonth(YearOf(d), MonthOf(d)) THEN AddDays(d + 1, n - 1)
    ELSE LET k == MonthIndex(YearOf(d), MonthOf(d)) + 1
         IN  AddDays(MkDate(IndexYear(k), IndexMonth(k), 1), n - 1)

\* pd.date_range(a, b, freq='ME'): the month-ends m with a <= m <= b, ascending
RECURSIVE MonthEndsFrom(_, _)
MonthEndsFrom(m, b) ==
    IF m > b THEN <<>> ELSE <<m>> \o MonthEndsFrom(MonthEnd(m, 1), b)

DateRangeME(a, b) == MonthEndsFrom(MonthEnd(a, 0), b)

(***************************************************************************)
(* metrics.py                                                              *)
(***************************************************************************)
Level3 == <<"entity_id", "deal_id", "fund">>
Level2 == <<"deal_id", "fund">>
Level1 == <<"fund">>
Levels == {Level3, Level2, Level1}

KeyOf(lv, r) == [i \in 1..Len(lv) |-> r[lv[i]]]
KeyHasNaN(k) == \E i \in 1..Len(k) : k[i] = NaN

\* groupby(level): the distinct keys without a null, in sorted order
GroupKeys(lv, rows) ==
    SortKeys({k \in {KeyOf(lv, rows[i]) : i \in DOMAIN rows} : ~KeyHasNaN(k)})

GroupRows(lv, rows, k) == SelectSeq(rows, LAMBDA r : KeyOf(lv, r) = k)

\* the caller's ledger after _pic_calc: the function works on mdb.copy() and
\* df[df['amount'] < 0] is a new frame, so the sign change at line 46 stays local
mdb_after_pic_calc_in_place(db) ==
    [i \in DOMAIN db |->
        IF db[i].amount < 0 THEN [db[i] EXCEPT !.amount = @ * (-1)] ELSE db[i]]

mdb_after_pic_calc(db) == db

pic_calc_keep_sign(lv, db) ==
    LET neg == SelectSeq(db, LAMBDA r : r.amount < 0)
        keys == GroupKeys(lv, neg)
    IN  [i \in 1..Len(keys) |->
            [key |-> keys[i], paid_in |-> SumAmount(GroupRows(lv, neg, keys[i]))]]

pic_calc(lv, db) ==
    LET neg == SelectSeq(db, LAMBDA r : r.amount < 0)
        paid_in_df == [i \in 1..Len(neg) |-> [neg[i] EXCEPT !.amount = neg[i].amount * (-1)]]
        keys == GroupKeys(lv, paid_in_df)
    IN  [i \in 1..Len(keys) |->
            [key |-> keys[i],
             paid_in |-> SumAmount(GroupRows(lv, paid_in_df, keys[i]))]]

dis_calc_netted(lv, db) ==
    LET keys == GroupKeys(lv, db)
    IN  [i \in 1..Len(keys) |->
            [key |-> keys[i], distr |-> SumAmount(GroupRows(lv, db, keys[i]))]]

dis_calc(lv, db) ==
    LET df_pos == SelectSeq(db, LAMBDA r : r.amount > 0)
        keys == GroupKeys(lv, df_pos)
    IN  [i \in 1..Len(keys) |->
            [key |-> keys[i],
             distr |-> SumAmount(GroupRows(lv, df_pos, keys[i]))]]

xirr_valid_length_only(cashflows, dates) == Len(cashflows) = Len(dates)

\* xirr's input validation: equal lengths, a positive and a negative cashflow
xirr_valid(cashflows, dates) ==
    /\ Len(cashflows) = Len(dates)
    /\ \E i \in DOMAIN cashflows : cashflows[i] > 0
    /\ \E i \in DOMAIN cashflows : cashflows[i] < 0

\* mdb[irr_loop].dropna().unique(): order of first appearance
RECURSIVE Unique(_, _)
Unique(s, seen) ==
    IF s = <<>> THEN <<>>
    ELSE IF Head(s) \in seen \/ Head(s) = NaN THEN Unique(Tail(s), seen)
    ELSE <<Head(s)>> \o Unique(Tail(s), seen \cup {Head(s)})

UList(lv, db) == Unique([i \in DOMAIN db |-> db[i][lv[1]]], {})

\* sort_values('asof'): stable insertion by date
RECURSIVE SortByAsof(_)
SortByAsof(s) ==
    IF s = <<>> THEN <<>>
    ELSE LET i == CHOOSE i \in DOMAIN s :
                     /\ \A j \in DOMAIN s : s[i].asof <= s[j].asof
                     /\ \A j \in 1..(i - 1) : s[j].asof > s[i].asof
             rest == [j \in 1..(Len(s) - 1) |-> IF j < i THEN s[j] ELSE s[j + 1]]
         IN  <<s[i]>> \o SortByAsof(rest)

Cdb(lv, db, e) == SortByAsof(SelectSeq(db, LAMBDA r : r[lv[1]] = e))

XirrValidEntities(lv, db) ==
    {e \in Range(UList(lv, db)) :
        LET cdb == Cdb(lv, db, e)
        IN  xirr_valid([i \in DOMAIN cdb |-> cdb[i].amount],
                       [i \in DOMAIN cdb |-> cdb[i].asof])}

\* a rate the iteration stopped at that the model does not compute
Rate == <<"rate">>

\* xirr's null result
None == <<>>

\* the outcome of a solver call that raised (RuntimeError after maxiter iterations,
\* OverflowError or ZeroDivisionError inside _xnpv)
Raised == <<"raised">>

DaysPerYear == 365
MaxIter == 3

\* days from a fixed origin to date d: (d - t0).days is a difference of two of them
RECURSIVE DaysBeforeMonth(_, _)
DaysBeforeMonth(y, m) ==
    IF m = 1 THEN 0 ELSE DaysInMonth(y, m - 1) + DaysBeforeMonth(y, m - 1)

DayNumber(d) ==
    LET y == YearOf(d) - 1
    IN  y * DaysPerYear + y \div 4 - y \div 100 + y \div 400
            + DaysBeforeMonth(YearOf(d), MonthOf(d)) + DayOf(d)

MinDate(dates) == CHOOSE d \in Range(dates) : \A e \in Range(dates) : d <= e

\* t = (d - t0).days / 365.0; the dates the model draws are whole years apart, so
\* that the quotient is exact
YearFrac(d, t0) == (DayNumber(d) - DayNumber(t0)) \div DaysPerYear

RECURSIVE Pow(_, _)
Pow(b, k) == IF k = 0 THEN 1 ELSE b * Pow(b, k - 1)

RECURSIVE SumSeq(_)
SumSeq(s) == IF s = <<>> THEN 0 ELSE Head(s) + SumSeq(Tail(s))

\* _xnpv at the rational rate <<n, d>> (1 + rate # 0): the sum of cf / (1 + rate)^t
\* as the reduced fraction over the common denominator (n + d)^T, T the largest t
xnpv(rate, cashflows, dates) ==
    LET t0 == MinDate(dates)
        t(i) == YearFrac(dates[i], t0)
        T == CHOOSE k \in {t(i) : i \in DOMAIN dates} :
                 \A i \in DOMAIN dates : t(i) <= k
        up == rate[1] + rate[2]
        npv == SumSeq([i \in DOMAIN cashflows |->
                          cashflows[i] * Pow(rate[2], t(i)) * Pow(up, T - t(i))])
    IN  Div(Num(npv), Num(Pow(up, T)))

\* initial_guess = -0.1 if sum(cashflows) < 0 else 0.1, in tenths
initial_guess(cashflows) == IF SumSeq(cashflows) < 0 THEN -1 ELSE 1

\* the cashflows that fall on the dates t years after the earliest date
FlowAt(cashflows, dates, k) ==
    SumSeq([i \in DOMAIN cashflows |->
               IF YearFrac(dates[i], MinDate(dates)) = k THEN cashflows[i] ELSE 0])

\* newton(f, x0, tol=1e-6, maxiter=10000) without fprime is the secant iteration.
\* When all flows fall on t = 0 and t = 1, f(u) = c0 + c1/u in u = 1 + r, whose root
\* is u* = -c1/c0, and a secant step from u_a, u_b gives u_a + u_b - u_a u_b/u*: the
\* error obeys e' = -e_a e_b / u*.  From |u0 - u*| <= u*/2 it shrinks to below tol
\* within a dozen steps, so the call returns the root.
SecantContracts(cashflows, dates) ==
    /\ \A i \in DOMAIN dates : YearFrac(dates[i], MinDate(dates)) \in {0, 1}
    /\ LET c0 == FlowAt(cashflows, dates, 0)
           c1 == FlowAt(cashflows, dates, 1)
           g == 10 + initial_guess(cashflows)
       IN  /\ c0 * c1 < 0
           /\ 2 * Abs(g * Abs(c0) - 10 * Abs(c1)) <= 10 * Abs(c1)

\* the root r* = u* - 1 = -(c0 + c1)/c0 as a reduced fraction
SecantRoot(cashflows, dates) ==
    LET c0 == FlowAt(cashflows, dates, 0)
        c1 == FlowAt(cashflows, dates, 1)
    IN  Div(Num(-(c0 + c1)), Num(c0))

\* what the solver call can do: return the root, return some other iterate, or raise
NewtonResults(cashflows, dates) ==
    IF SecantContracts(cashflows, dates) THEN {SecantRoot(cashflows, dates)}
    ELSE {Rate, Raised}

\* except Exception: the warning is logged and None returned
OnExceptionEscapes == [irr |-> None, err |-> "RuntimeError"]

OnException == [irr |-> None, err |-> "none"]

\* the values one call xirr(cashflows, dates) can return
XirrOutcomes(cashflows, dates) ==
    IF ~xirr_valid(cashflows, dates) THEN {None}
    ELSE {IF x = Raised THEN OnException.irr ELSE x : x \in NewtonResults(cashflows, dates)}

\* the loop over ulist: one xirr call per entity on its rows sorted by date
EntityXirr(lv, db, e) ==
    LET cdb == Cdb(lv, db, e)
    IN  XirrOutcomes([i \in DOMAIN cdb |-> cdb[i].amount],
                     [i \in DOMAIN cdb |-> cdb[i].asof])

EntityOutcomes(lv, db) ==
    LET ents == Range(UList(lv, db))
        all == UNION {EntityXirr(lv, db, e) : e \in ents}
    IN  {f \in [ents -> all] : \A e \in ents : f[e] \in EntityXirr(lv, db, e)}

\* pd.merge(pic_df, dis_df, on=level, how='outer')
MergeInner(pic_df, dis_df) ==
    LET pk == {pic_df[i].key : i \in DOMAIN pic_df}
        dk == {dis_df[i].key : i \in DOMAIN dis_df}
        keys == SortKeys(pk \cap dk)
        P(k) == CHOOSE i \in DOMAIN pic_df : pic_df[i].key = k
        D(k) == CHOOSE i \in DOMAIN dis_df : dis_df[i].key = k
    IN  [i \in 1..Len(keys) |->
            [key |-> keys[i],
             paid_in |-> Num(pic_df[P(keys[i])].paid_in),
             distr |-> Num(dis_df[D(keys[i])].distr)]]

MergeOuter(pic_df, dis_df) ==
    LET pk == {pic_df[i].key : i \in DOMAIN pic_df}
        dk == {dis_df[i].key : i \in DOMAIN dis_df}
        keys == SortKeys(pk \cup dk)
        P(k) == CHOOSE i \in DOMAIN pic_df : pic_df[i].key = k
        D(k) == CHOOSE i \in DOMAIN dis_df : dis_df[i].key = k
    IN  [i \in 1..Len(keys) |->
            [key |-> keys[i],
             paid_in |-> IF keys[i] \in pk THEN Num(pic_df[P(keys[i])].paid_in) ELSE NaNnum,
             distr |-> IF keys[i] \in dk THEN Num(dis_df[D(keys[i])].distr) ELSE NaNnum]]

\* fillna({'paid_in': 0, 'distr': 0})
FillNa(df) ==
    [i \in DOMAIN df |->
        [df[i] EXCEPT !.paid_in = IF @ = NaNnum THEN Num(0) ELSE @,
                      !.distr = IF @ = NaNnum THEN Num(0) ELSE @]]

\* metrics_df['MOIC'] = metrics_df['distr'] / metrics_df['paid_in']
WithMOIC(df) ==
    [i \in DOMAIN df |->
        [key |-> df[i].key, paid_in |-> df[i].paid_in, distr |-> df[i].distr,
         MOIC |-> Div(df[i].distr, df[i].paid_in)]]

IrrMergeLeft(lv, df, ulist, conv) ==
    [i \in DOMAIN df |->
        [key |-> df[i].key, paid_in |-> df[i].paid_in, distr |-> df[i].distr,
         MOIC |-> df[i].MOIC, xirr |-> conv[df[i].key[1]]]]

\* pd.merge(metrics_df, irr_df, on=irr_loop, how='outer'): one block per entity in
\* sorted order; an entity without a row of metrics_df gets a row of nulls
IrrMerge(lv, df, ulist, conv) ==
    LET ents == SortKeys({<<e>> : e \in Range(ulist)})
        X(e) == conv[e]
        Block(e) ==
            LET left == SelectSeq(df, LAMBDA r : r.key[1] = e)
            IN  IF left = <<>>
                THEN <<[key |-> [i \in 1..Len(lv) |-> IF i = 1 THEN e ELSE NaN],
                        paid_in |-> NaNnum, distr |-> NaNnum, MOIC |-> NaNnum,
                        xirr |-> X(e)]>>
                ELSE [i \in DOMAIN left |->
                        [key |-> left[i].key, paid_in |-> left[i].paid_in,
                         distr |-> left[i].distr, MOIC |-> left[i].MOIC,
                         xirr |-> X(e)]]
    IN  Flatten([i \in 1..Len(ents) |-> Block(ents[i][1])])

\* conv: the value xirr returns for each entity of ulist
metrics(lv, db, conv) ==
    LET pic_df == pic_calc(lv, db)
        dis_df == dis_calc(lv, db)
        metrics_df0 == WithMOIC(FillNa(MergeOuter(pic_df, dis_df)))
    IN  IrrMerge(lv, metrics_df0, UList(lv, db), conv)

\* irr_df = pd.DataFrame([]) has no column irr_loop: the second merge raises
metrics_raises(lv, db) == UList(lv, db) = <<>>

\* _pic_calc and _dis_calc log a warning and return pd.DataFrame() when the amount
\* column or a grouping column is missing
calc_skipped(lv, cols) == "amount" \notin cols \/ \E i \in DOMAIN lv : lv[i] \notin cols

\* on a ledger with the columns cols: pd.merge(pic_df, dis_df, on=level) raises
\* KeyError on frames without the key columns, and cdb.sort_values('asof') raises
\* KeyError in the first turn of the loop over ulist
metrics_raises_columns(lv, db, cols) ==
    \/ calc_skipped(lv, cols)
    \/ "asof" \notin cols /\ UList(lv, db) # <<>>

(***************************************************************************)
(* Ledgers of the metrics specification                                    *)
(***************************************************************************)
MaxLedger == 2

EntityIds == {"E1", "E2", NaN}
DealFund == {<<"D1", "F1">>, <<"D2", "F2">>, <<NaN, NaN>>}
Amounts == {-2, -1, 0, 1}
AsofDates == {20230101, 20240101}

LedgerRow(e, df, a, d) ==
    [entity_id |-> e, deal_id |-> df[1], fund |-> df[2], amount |-> a, asof |-> d,
     cashflow_type |-> IF a < 0 THEN "contribution" ELSE "interest"]

LedgerRows ==
    {LedgerRow(e, df, a, d) : e \in EntityIds, df \in DealFund, a \in Amounts, d \in AsofDates}

Ledgers == UNION {[1..n -> LedgerRows] : n \in 0..MaxLedger}

\* the two-row ledger of the worked example: a contribution of 1000 and, 365 days
\* later, an inflow of 1200
ExampleLedger ==
    <<LedgerRow("E1", <<"D1", "F1">>, -1000, 20230101),
      LedgerRow("E1", <<"D1", "F1">>, 1200, 20240101)>>

InitMetrics ==
    /\ pc = "ledger"
    /\ mdb \in Ledgers \cup {ExampleLedger}
    /\ level = <<>>
    /\ metrics_df = <<>>
    /\ err = "none"
    /\ curvedb = <<>>
    /\ fund_db = <<>>
    /\ fund_level = <<>>
    /\ fund_level_curve = <<>>
    /\ fees = <<>>
    /\ ShockIdle /\ XirrIdle /\ MergeIdle /\ LedgerIdle

Metrics ==
    /\ pc = "ledger"
    /\ \E lv \in Levels :
        /\ level' = lv
        /\ IF metrics_raises_columns(lv, mdb, columns) \/ metrics_raises(lv, mdb)
           THEN /\ err' = "KeyError"
                /\ metrics_df' = <<>>
                /\ UNCHANGED mdb
           ELSE /\ err' = "none"
                /\ \E conv \in EntityOutcomes(lv, mdb) :
                      metrics_df' = metrics(lv, mdb, conv)
                /\ mdb' = mdb_after_pic_calc(mdb)
    /\ pc' = "metrics"
    /\ UNCHANGED <<curvedb, fund_db, fund_level, fund_level_curve, fees>>
    /\ UNCHANGED <<shockVars, xirrVars, mergeVars, ledgerVars>>

NextMetrics == Metrics

SpecMetrics == InitMetrics /\ [][NextMetrics]_vars

(***************************************************************************)
(* fund_metrics.py.  Units: advance_rate is carried in percent, so         *)
(* finance_portion, credit_line and undrawn are in hundredths of a         *)
(* currency unit; rate, all_in_rate and undrawn_fee_rate are carried in    *)
(* basis points (the source's division by 10,000); a fee amount is the     *)
(* reduced fraction <<n, d>> of hundredths x basis points.                 *)
(***************************************************************************)
CreditLinePct == 20
MonthsPerYear == 12
PaymentDayOffset == 14

MulCell(a, b) == IF IsNum(a) /\ IsNum(b) THEN Num(a[1] * b[1]) ELSE NaNnum
AddCell(a, b) == IF IsNum(a) /\ IsNum(b) THEN Num(a[1] + b[1]) ELSE NaNnum

\* df['finance_portion'] = df['con_amount'] * df['advance_rate']
FinancePortionAbs(con_amount, advance_rate) == Abs(con_amount) * advance_rate

FinancePortion(con_amount, advance_rate) == con_amount * advance_rate

\* df.merge(exit_data, on='entity_id', how='left'): one row per matching exit row,
\* or one row with a null exit_date
LeftMergeExit(r, exit_data) ==
    LET hits == SelectSeq(exit_data, LAMBDA x : x.entity_id = r.entity_id)
        With(e) ==
            [entity_id |-> r.entity_id, con_date |-> r.asof, con_amount |-> r.amount,
             fund_commitment |-> r.commitment,
             cost_of_funds_curve |-> r.cost_of_funds_curve,
             fund_spread_bps_lev |-> r.spread_bps_lev,
             fund_undrawn_fee_bps |-> r.undrawn_fee_bps,
             advance_rate |-> r.advance_rate, fund |-> r.fund,
             finance_portion |-> FinancePortion(r.amount, r.advance_rate),
             credit_line |-> r.commitment * CreditLinePct,
             exit_date |-> e]
    IN  IF hits = <<>> THEN <<With(NaT)>>
        ELSE [i \in DOMAIN hits |-> With(hits[i].exit_date)]

clean_data_fund(mdc_cleanned) ==
    LET con_data == SelectSeq(mdc_cleanned, LAMBDA r : r.cashflow_type = "contribution")
        ex == SelectSeq(mdc_cleanned, LAMBDA r : r.cashflow_type = "exit_fee")
        exit_data == [i \in DOMAIN ex |->
                         [entity_id |-> ex[i].entity_id, exit_date |-> ex[i].asof]]
    IN  Flatten([i \in DOMAIN con_data |-> LeftMergeExit(con_data[i], exit_data)])

\* groupby(['fund', 'con_date', 'exit_date']): keys with a null are dropped, groups
\* come out sorted by key
PosKey(r) == <<r.fund, r.con_date, r.exit_date>>
PosKeyLess(a, b) ==
    \/ Ord(a[1]) < Ord(b[1])
    \/ a[1] = b[1] /\ a[2] < b[2]
    \/ a[1] = b[1] /\ a[2] = b[2] /\ a[3] < b[3]

RECURSIVE SortPosKeys(_)
SortPosKeys(S) ==
    IF S = {} THEN <<>>
    ELSE LET m == CHOOSE x \in S : \A y \in S \ {x} : PosKeyLess(x, y)
         IN  <<m>> \o SortPosKeys(S \ {m})

RECURSIVE SumFinance(_)
SumFinance(s) == IF s = <<>> THEN 0 ELSE Head(s).finance_portion + SumFinance(Tail(s))

\* groupby('fund').cumcount() == 0 on the table sorted by fund, con_date
FirstMaskLast(tbl, i) == \A j \in DOMAIN tbl : j > i => tbl[j].fund # tbl[i].fund

FirstMask(tbl, i) == \A j \in DOMAIN tbl : j < i => tbl[j].fund # tbl[i].fund

\* np.where(first_mask, credit_line + finance_portion, finance_portion)
UndrawnAlwaysLine(first, credit_line, finance_portion) == credit_line + finance_portion

Undrawn(first, credit_line, finance_portion) ==
    IF first THEN credit_line + finance_portion ELSE finance_portion

return_fund_info(fdb) ==
    LET keyed == SelectSeq(fdb, LAMBDA r : r.fund # NaN /\ r.con_date # NaT /\ r.exit_date # NaT)
        keys == SortPosKeys({PosKey(keyed[i]) : i \in DOMAIN keyed})
        Grp(k) == SelectSeq(keyed, LAMBDA r : PosKey(r) = k)
        agg == [i \in 1..Len(keys) |->
                   LET g == Grp(keys[i])
                   IN  [fund |-> keys[i][1], con_date |-> keys[i][2], exit_date |-> keys[i][3],
                        finance_portion |-> SumFinance(g),
                        credit_line |-> g[1].credit_line,
                        cost_of_funds_curve |-> g[1].cost_of_funds_curve,
                        fund_spread_bps_lev |-> g[1].fund_spread_bps_lev,
                        fund_undrawn_fee_bps |-> g[1].fund_undrawn_fee_bps,
                        advance_rate |-> g[1].advance_rate]]
    IN  [i \in DOMAIN agg |->
            [fund |-> agg[i].fund, con_date |-> agg[i].con_date,
             exit_date |-> agg[i].exit_date,
             finance_portion |-> agg[i].finance_portion,
             undrawn |-> Undrawn(FirstMask(agg, i), agg[i].credit_line, agg[i].finance_portion),
             credit_line |-> agg[i].credit_line,
             cost_of_funds_curve |-> agg[i].cost_of_funds_curve,
             fund_spread_bps_lev |-> agg[i].fund_spread_bps_lev,
             fund_undrawn_fee_bps |-> agg[i].fund_undrawn_fee_bps,
             advance_rate |-> agg[i].advance_rate]]

\* out[(out['month_end'] >= out['con_date']) & (out['month_end'] <= out['exit_date'])]
InWindowNoLowerBound(month_end, con_date, exit_date) ==
    month_end # NaT /\ month_end <= exit_date

InWindow(month_end, con_date, exit_date) ==
    month_end # NaT /\ month_end >= con_date /\ month_end <= exit_date

\* (month_end + pd.offsets.MonthBegin(1)) + pd.DateOffset(days=14)
PaymentDateNoMonthBegin(month_end) == AddDays(month_end, PaymentDayOffset)

PaymentDate(month_end) == AddDays(MonthBegin(month_end, 1), PaymentDayOffset)

\* explode('month_end'): one row per month-end of the range, one row with a null
\* month_end for an empty range
Explode(r) ==
    LET start_me == MonthEnd(r.con_date, -1)
        exit_me == MonthEnd(r.exit_date, 0)
        rng == DateRangeME(start_me, exit_me)
    IN  IF rng = <<>> THEN <<NaT>> ELSE rng

\* fl.merge(curves, left_on=[cost_of_funds_curve, month_end], how='left'): one row
\* per matching curve point, or one row with a null rate
\* the rate-shock hook: a uniform shock (in basis points here) added to every rate of
\* the curve table, once, before the join
ShockCurve(curves, s) == [i \in DOMAIN curves |-> [curves[i] EXCEPT !.rate = @ + s]]

JoinCurveFeeOnRate(r, month_end, curves) ==
    LET hits == SelectSeq(curves, LAMBDA c : c.curve = r.cost_of_funds_curve
                                              /\ c.asof = month_end)
        With(rate) ==
            [fund |-> r.fund, con_date |-> r.con_date, exit_date |-> r.exit_date,
             month_end |-> month_end,
             cost_of_funds_curve |-> r.cost_of_funds_curve,
             rate |-> rate,
             all_in_rate |-> AddCell(rate, Num(r.fund_spread_bps_lev)),
             fund_spread_bps_lev |-> r.fund_spread_bps_lev,
             fund_undrawn_fee_bps |-> r.fund_undrawn_fee_bps,
             undrawn_fee_rate |-> AddCell(rate, Num(r.fund_undrawn_fee_bps)),
             finance_portion |-> r.finance_portion,
             undrawn |-> r.undrawn]
    IN  IF hits = <<>> THEN <<With(NaNnum)>>
        ELSE [i \in DOMAIN hits |-> With(Num(hits[i].rate))]

JoinCurveInner(r, month_end, curves) ==
    LET hits == SelectSeq(curves, LAMBDA c : c.curve = r.cost_of_funds_curve
                                              /\ c.asof = month_end)
    IN  [i \in DOMAIN hits |->
            [fund |-> r.fund, con_date |-> r.con_date, exit_date |-> r.exit_date,
             month_end |-> month_end,
             cost_of_funds_curve |-> r.cost_of_funds_curve,
             rate |-> Num(hits[i].rate),
             all_in_rate |-> AddCell(Num(hits[i].rate), Num(r.fund_spread_bps_lev)),
             fund_spread_bps_lev |-> r.fund_spread_bps_lev,
             fund_undrawn_fee_bps |-> r.fund_undrawn_fee_bps,
             undrawn_fee_rate |-> Num(r.fund_undrawn_fee_bps),
             finance_portion |-> r.finance_portion,
             undrawn |-> r.undrawn]]

JoinCurve(r, month_end, curves) ==
    LET hits == SelectSeq(curves, LAMBDA c : c.curve = r.cost_of_funds_curve
                                              /\ c.asof = month_end)
        With(rate) ==
            [fund |-> r.fund, con_date |-> r.con_date, exit_date |-> r.exit_date,
             month_end |-> month_end,
             cost_of_funds_curve |-> r.cost_of_funds_curve,
             rate |-> rate,
             all_in_rate |-> AddCell(rate, Num(r.fund_spread_bps_lev)),
             fund_spread_bps_lev |-> r.fund_spread_bps_lev,
             fund_undrawn_fee_bps |-> r.fund_undrawn_fee_bps,
             undrawn_fee_rate |-> Num(r.fund_undrawn_fee_bps),
             finance_portion |-> r.finance_portion,
             undrawn |-> r.undrawn]
    IN  IF hits = <<>> THEN <<With(NaNnum)>>
        ELSE [i \in DOMAIN hits |-> With(Num(hits[i].rate))]

expand_and_join_curve(fl, curves) ==
    LET joined == Flatten([i \in DOMAIN fl |->
                     LET ms == Explode(fl[i])
                     IN  Flatten([j \in DOMAIN ms |-> JoinCurve(fl[i], ms[j], curves)])])
        out == SelectSeq(joined, LAMBDA r : InWindow(r.month_end, r.con_date, r.exit_date))
    IN  [i \in DOMAIN out |->
            [fund |-> out[i].fund, con_date |-> out[i].con_date,
             exit_date |-> out[i].exit_date, month_end |-> out[i].month_end,
             payment_date |-> PaymentDate(out[i].month_end),
             cost_of_funds_curve |-> out[i].cost_of_funds_curve,
             rate |-> out[i].rate, all_in_rate |-> out[i].all_in_rate,
             fund_spread_bps_lev |-> out[i].fund_spread_bps_lev,
             fund_undrawn_fee_bps |-> out[i].fund_undrawn_fee_bps,
             undrawn_fee_rate |-> out[i].undrawn_fee_rate,
             finance_portion |-> out[i].finance_portion,
             undrawn |-> out[i].undrawn]]

\* the caller's fund_level after expand_and_join_curve: the columns start_me,
\* exit_me and month_end are added to fl = fund_level.copy()
fund_level_after_expand_in_place(fl) ==
    [i \in DOMAIN fl |->
        [k \in DOMAIN fl[i] \cup {"start_me", "exit_me"} |->
            IF k = "start_me" THEN MonthEnd(fl[i].con_date, -1)
            ELSE IF k = "exit_me" THEN MonthEnd(fl[i].exit_date, 0)
            ELSE fl[i][k]]]

fund_level_after_expand(fl) == fl

\* fl.apply(..., axis=1) of a frame without rows returns a frame, and assigning it
\* to the column month_end raises
expand_raises(fl) == fl = <<>>

\* amount = finance_portion * all_in_rate / 12
InterestAmount(r) ==
    Div(MulCell(Num(r.finance_portion), r.all_in_rate), Num(MonthsPerYear))

\* amount = undrawn * undrawn_fee_rate / 12 * -1
UndrawnFeeAmount(r) ==
    Div(MulCell(MulCell(Num(r.undrawn), r.undrawn_fee_rate), Num(-1)), Num(MonthsPerYear))

FeeRow(r, type, amount) ==
    [payment_date |-> r.payment_date, cashflow_type |-> type, fund |-> r.fund,
     amount |-> amount]

calc_monthly_fee_interest_only(flc) ==
    [i \in DOMAIN flc |-> FeeRow(flc[i], "interest", InterestAmount(flc[i]))]

calc_monthly_fee(flc) ==
    [i \in DOMAIN flc |-> FeeRow(flc[i], "interest", InterestAmount(flc[i]))]
    \o [i \in DOMAIN flc |-> FeeRow(flc[i], "undrawn_fee", UndrawnFeeAmount(flc[i]))]

(***************************************************************************)
(* Inputs of the leverage specification: a ledger in the canonical sign    *)
(* convention (contributions negative, exit fees positive) whose leverage  *)
(* terms are attached by fund, and a curve table                           *)
(***************************************************************************)
MaxFundRows == 4

Structure == [E1 |-> [deal_id |-> "D1", fund |-> "F1"],
              E2 |-> [deal_id |-> "D2", fund |-> "F2"],
              E3 |-> [deal_id |-> "D1", fund |-> "F1"]]

Terms(commitment, advance_rate, spread, fee, curve) ==
    [commitment |-> commitment, advance_rate |-> advance_rate, spread_bps |-> spread,
     undrawn_fee_bps |-> fee, cost_of_funds_curve |-> curve]

LeverageTables ==
    {[F1 |-> Terms(10, 50, 100, 25, "sofr"), F2 |-> Terms(5, 100, 0, 50, "euribor")],
     [F1 |-> Terms(0, 0, -500, 0, "sofr"), F2 |-> Terms(10, 100, 100, 50, "sofr")]}

CurvePoint(c, d, rate) == [curve |-> c, asof |-> d, rate |-> rate]

CurveTables ==
    {<<CurvePoint("sofr", 20231130, 400), CurvePoint("sofr", 20231231, 410),
       CurvePoint("sofr", 20240131, 420), CurvePoint("sofr", 20240229, 430),
       CurvePoint("euribor", 20231130, -50), CurvePoint("euribor", 20231231, 0),
       CurvePoint("euribor", 20240131, 300), CurvePoint("euribor", 20240229, 310)>>,
     <<CurvePoint("sofr", 20231130, 400), CurvePoint("sofr", 20240131, 420),
       CurvePoint("sofr", 20240131, 425), CurvePoint("euribor", 20240229, 310)>>}

CurveUnique(curves) ==
    \A i, j \in DOMAIN curves :
        curves[i].curve = curves[j].curve /\ curves[i].asof = curves[j].asof => i = j

\* the rows the ledger is drawn from: E1 (fund F1) draws on a month-end or mid-month
\* and exits on a month-end or mid-month; E2 (fund F2) draws mid-December
FundRowChoices ==
    {<<"E1", "contribution", 20231130, -2>>, <<"E1", "contribution", 20231130, -1>>,
     <<"E1", "contribution", 20240210, -2>>, <<"E1", "contribution", 20240210, -1>>,
     <<"E1", "exit_fee", 20240131, 1>>, <<"E1", "exit_fee", 20240310, 1>>,
     <<"E2", "contribution", 20231215, -1>>, <<"E2", "exit_fee", 20240310, 1>>}

FundRow(lev, c) ==
    LET e == c[1]
        t == lev[Structure[e].fund]
    IN  [entity_id |-> e, deal_id |-> Structure[e].deal_id, fund |-> Structure[e].fund,
         cashflow_type |-> c[2], asof |-> c[3], amount |-> c[4],
         commitment |-> t.commitment, cost_of_funds_curve |-> t.cost_of_funds_curve,
         spread_bps_lev |-> t.spread_bps, undrawn_fee_bps |-> t.undrawn_fee_bps,
         advance_rate |-> t.advance_rate]

FundRows(lev) == {FundRow(lev, c) : c \in FundRowChoices}

InitFund ==
    /\ pc = "ledger"
    /\ \E lev \in LeverageTables :
          mdb \in UNION {[1..n -> FundRows(lev)] : n \in 0..MaxFundRows}
    /\ curvedb \in CurveTables
    /\ level = <<>>
    /\ metrics_df = <<>>
    /\ err = "none"
    /\ fund_db = <<>>
    /\ fund_level = <<>>
    /\ fund_level_curve = <<>>
    /\ fees = <<>>
    /\ ShockIdle /\ XirrIdle /\ MergeIdle /\ LedgerIdle

CleanDataFund ==
    /\ pc = "ledger"
    /\ fund_db' = clean_data_fund(mdb)
    /\ pc' = "fund_db"
    /\ UNCHANGED <<mdb, level, metrics_df, err, curvedb, fund_level, fund_level_curve, fees>>
    /\ UNCHANGED <<shockVars, xirrVars, mergeVars, ledgerVars>>

ReturnFundInfo ==
    /\ pc = "fund_db"
    /\ fund_level' = return_fund_info(fund_db)
    /\ pc' = "fund_level"
    /\ UNCHANGED <<mdb, level, metrics_df, err, curvedb, fund_db, fund_level_curve, fees>>
    /\ UNCHANGED <<shockVars, xirrVars, mergeVars, ledgerVars>>

ExpandAndJoinCurve ==
    /\ pc = "fund_level"
    /\ IF expand_raises(fund_level)
       THEN /\ err' = "ValueError"
            /\ pc' = "aborted"
            /\ UNCHANGED <<fund_level_curve, fund_level>>
       ELSE /\ fund_level_curve' = expand_and_join_curve(fund_level, curvedb)
            /\ fund_level' = fund_level_after_expand(fund_level)
            /\ pc' = "fund_level_curve"
            /\ UNCHANGED err
    /\ UNCHANGED <<mdb, level, metrics_df, curvedb, fund_db, fees>>
    /\ UNCHANGED <<shockVars, xirrVars, mergeVars, ledgerVars>>

CalcMonthlyFee ==
    /\ pc = "fund_level_curve"
    /\ fees' = calc_monthly_fee(fund_level_curve)
    /\ pc' = "fees"
    /\ UNCHANGED <<mdb, level, metrics_df, err, curvedb, fund_db, fund_level, fund_level_curve>>
    /\ UNCHANGED <<shockVars, xirrVars, mergeVars, ledgerVars>>

NextFund == CleanDataFund \/ ReturnFundInfo \/ ExpandAndJoinCurve \/ CalcMonthlyFee

SpecFund == InitFund /\ [][NextFund]_vars

(***************************************************************************)
(* The leverage schedule run twice on the same positions: once on the      *)
(* curve table as read, once on the curve table with the shock added       *)
(***************************************************************************)
MaxShockRows == 3
Shocks == {-100, 0, 25}

InitShock ==
    /\ pc = "ledger"
    /\ \E lev \in LeverageTables :
          mdb \in UNION {[1..n -> FundRows(lev)] : n \in 0..MaxShockRows}
    /\ curvedb \in CurveTables
    /\ shock \in Shocks
    /\ shocked = <<>>
    /\ level = <<>>
    /\ metrics_df = <<>>
    /\ err = "none"
    /\ fund_db = <<>>
    /\ fund_level = <<>>
    /\ fund_level_curve = <<>>
    /\ fees = <<>>
    /\ XirrIdle /\ MergeIdle /\ LedgerIdle

ExpandShocked ==
    /\ pc = "fund_level_curve"
    /\ shocked' = expand_and_join_curve(fund_level, ShockCurve(curvedb, shock))
    /\ pc' = "shocked"
    /\ UNCHANGED <<mdb, level, metrics_df, err, curvedb, fund_db, fund_level,
                   fund_level_curve, fees, shock>>
    /\ UNCHANGED <<xirrVars, mergeVars, ledgerVars>>

NextShock == CleanDataFund \/ ReturnFundInfo \/ ExpandAndJoinCurve \/ ExpandShocked

SpecShock == InitShock /\ [][NextShock]_vars

(***************************************************************************)
(* One call of xirr: the arguments are any two sequences (lengths chosen   *)
(* independently), the solver runs one iteration per step                  *)
(***************************************************************************)
MaxFlows == 3
XirrAmounts == {-2, -1, 0, 1, 2}
XirrDates == {20230101, 20240101, 20241231}

InitXirr ==
    /\ pc = "call"
    /\ call_cashflows \in UNION {[1..n -> XirrAmounts] : n \in 0..MaxFlows}
    /\ call_dates \in UNION {[1..n -> XirrDates] : n \in 0..MaxFlows}
    /\ irr = <<>>
    /\ iter = 0
    /\ err = "none"
    /\ mdb = <<>>
    /\ level = <<>>
    /\ metrics_df = <<>>
    /\ curvedb = <<>>
    /\ fund_db = <<>>
    /\ fund_level = <<>>
    /\ fund_level_curve = <<>>
    /\ fees = <<>>
    /\ ShockIdle /\ MergeIdle /\ LedgerIdle

xirrRest == <<mdb, level, metrics_df, curvedb, fund_db, fund_level, fund_level_curve,
              fees, shockVars, mergeVars, ledgerVars, call_cashflows, call_dates>>

\* lines 158-164: the two early returns, else the solver starts
XirrCall ==
    /\ pc = "call"
    /\ IF xirr_valid(call_cashflows, call_dates)
       THEN pc' = "newton" /\ irr' = irr
       ELSE pc' = "returned" /\ irr' = None
    /\ UNCHANGED <<iter, err, xirrRest>>

\* one more iteration that neither stops nor raises
NewtonIterate ==
    /\ pc = "newton"
    /\ iter < MaxIter
    /\ SecantContracts(call_cashflows, call_dates) => iter + 1 < MaxIter
    /\ iter' = iter + 1
    /\ UNCHANGED <<pc, irr, err, xirrRest>>

\* the iteration that meets the tolerance: xirr returns the solver's value
NewtonConverge ==
    /\ pc = "newton"
    /\ iter < MaxIter
    /\ \E x \in NewtonResults(call_cashflows, call_dates) \ {Raised} : irr' = x
    /\ iter' = iter + 1
    /\ pc' = "returned"
    /\ UNCHANGED <<err, xirrRest>>

\* the solver raises (after its last iteration, or inside _xnpv at any time) and
\* xirr's except clause takes over
NewtonRaise ==
    /\ pc = "newton"
    /\ Raised \in NewtonResults(call_cashflows, call_dates)
    /\ irr' = OnException.irr
    /\ err' = OnException.err
    /\ pc' = "returned"
    /\ UNCHANGED <<iter, xirrRest>>

NextXirr == XirrCall \/ NewtonIterate \/ NewtonConverge \/ NewtonRaise

SpecXirr == InitXirr /\ [][NextXirr]_vars

\* calls on cashflows and dates of equal length; a call runs to its end, nothing else
\* being scheduled inside xirr
MaxFairFlows == 2

InitXirrEqual ==
    /\ pc = "call"
    /\ \E n \in 0..MaxFairFlows :
          /\ call_cashflows \in [1..n -> XirrAmounts]
          /\ call_dates \in [1..n -> XirrDates]
    /\ irr = <<>>
    /\ iter = 0
    /\ err = "none"
    /\ mdb = <<>>
    /\ level = <<>>
    /\ metrics_df = <<>>
    /\ curvedb = <<>>
    /\ fund_db = <<>>
    /\ fund_level = <<>>
    /\ fund_level_curve = <<>>
    /\ fees = <<>>
    /\ ShockIdle /\ MergeIdle /\ LedgerIdle

SpecXirrFair == InitXirrEqual /\ [][NextXirr]_vars /\ WF_vars(NextXirr)

(***************************************************************************)
(* level_merge.py.  A cell filled by fillna('N/A') is NA in a numeric      *)
(* column and the string N/A in a text column; pd.NA is the null cell.     *)
(***************************************************************************)
NA == <<"N", "/", "A">>
PdNA == <<>>

HasColumn(tbl, c) == \A i \in DOMAIN tbl : c \in DOMAIN tbl[i]

\* l3['facility_name'] and l2['deal_name'] raise KeyError on a table without the column
merge_raises(t3, t2, t1) ==
    ~HasColumn(t3, "facility_name") \/ ~HasColumn(t2, "deal_name")

\* rename distr, assign level, id and name, then the columns kept at lines 56-65
Labelled(tbl, lvl, name_col) ==
    [i \in DOMAIN tbl |->
        [level |-> lvl, id |-> tbl[i].key[1],
         name |-> IF name_col = "fund" THEN tbl[i].key[1] ELSE tbl[i][name_col],
         paid_in |-> tbl[i].paid_in, distributed |-> tbl[i].distr,
         gross_irr |-> tbl[i].xirr, gross_moic |-> tbl[i].MOIC,
         net_irr |-> PdNA, net_moic |-> PdNA]]

merge_deal_level(t3, t2, t1) ==
    Labelled(t3, "Facility", "facility_name") \o Labelled(t2, "Deal", "deal_name")
        \o Labelled(t1, "Fund", "fund")

\* df.loc[df['level'] == 'Fund', ...]
AssignMaskAll(lvl) == TRUE

AssignMask(lvl) == lvl = "Fund"

FillNaText(c) == IF c = NaN THEN "N/A" ELSE c
FillNaCellKeepNull(c) == c

FillNaCell(c) == IF c = PdNA THEN NA ELSE c

\* mdc_cleanned.merge(net[['fund','xirr','MOIC']], left_on='id', right_on='fund',
\* how='left'): one row per matching net row, or one row with null xirr and MOIC;
\* then the assignment on the Fund rows, the drop of the helper columns and
\* fillna('N/A') on every column
AssignRow(r, net_tbl) ==
    LET hits == SelectSeq(net_tbl, LAMBDA n : n.key[1] = r.id)
        With(x, m) ==
            [level |-> FillNaText(r.level), id |-> FillNaText(r.id),
             name |-> FillNaText(r.name),
             paid_in |-> FillNaCell(r.paid_in),
             distributed |-> FillNaCell(r.distributed),
             gross_irr |-> FillNaCell(r.gross_irr),
             gross_moic |-> FillNaCell(r.gross_moic),
             net_irr |-> FillNaCell(IF AssignMask(r.level) THEN x ELSE r.net_irr),
             net_moic |-> FillNaCell(IF AssignMask(r.level) THEN m ELSE r.net_moic)]
    IN  IF hits = <<>> THEN <<With(PdNA, PdNA)>>
        ELSE [i \in DOMAIN hits |-> With(hits[i].xirr, hits[i].MOIC)]

assign_fund_net_metrics(tbl, net_tbl) ==
    Flatten([i \in DOMAIN tbl |-> AssignRow(tbl[i], net_tbl)])

(***************************************************************************)
(* The hierarchy merge: the three metric tables of a ledger, with or       *)
(* without the name columns, and a table of net fund metrics               *)
(***************************************************************************)
MaxMergeLedger == 2
MaxNetLedger == 3

\* an entity may carry the identifier of a fund
MergeEntityIds == {"E1", "F1"}
MergeDealFund == {<<"D1", "F1">>, <<"D2", "F2">>}
MergeFlows == {<<-1, 20230101>>, <<0, 20230101>>, <<1, 20240101>>}

MergeLedgerRows ==
    {LedgerRow(e, df, f[1], f[2]) : e \in MergeEntityIds, df \in MergeDealFund,
                                    f \in MergeFlows}

NetLedgerRows == {LedgerRow("E1", df, f[1], f[2]) : df \in MergeDealFund, f \in MergeFlows}

\* the net fund metrics: metrics(['fund']) of a ledger
NetTables ==
    UNION {{metrics(Level1, L, c) : c \in EntityOutcomes(Level1, L)} :
              L \in UNION {[1..n -> NetLedgerRows] : n \in 1..MaxNetLedger}}

Names == [E1 |-> "Facility One", E2 |-> "Facility Two", F1 |-> "Facility F",
          D1 |-> "Deal One", D2 |-> "Deal Two"]

\* a caller that attaches the display name of the table's identifier column
AttachNames(tbl, name_col) ==
    [i \in DOMAIN tbl |->
        [k \in DOMAIN tbl[i] \cup {name_col} |->
            IF k = name_col THEN Names[tbl[i].key[1]] ELSE tbl[i][k]]]

InitMerge ==
    /\ pc = "ledger"
    /\ mdb \in UNION {[1..n -> MergeLedgerRows] : n \in 0..MaxMergeLedger}
    /\ net \in NetTables
    /\ l3 = <<>> /\ l2 = <<>> /\ l1 = <<>> /\ mldb = <<>> /\ rollup = <<>>
    /\ level = <<>>
    /\ metrics_df = <<>>
    /\ err = "none"
    /\ curvedb = <<>>
    /\ fund_db = <<>>
    /\ fund_level = <<>>
    /\ fund_level_curve = <<>>
    /\ fees = <<>>
    /\ ShockIdle /\ XirrIdle /\ LedgerIdle

mergeRest == <<level, metrics_df, curvedb, fund_db, fund_level, fund_level_curve,
               fees, shockVars, xirrVars, ledgerVars, net>>

\* main.py 79-88: metrics at the three levels (the first one that raises aborts)
LevelMetrics ==
    /\ pc = "ledger"
    /\ IF metrics_raises(Level3, mdb)
       THEN /\ err' = "KeyError"
            /\ pc' = "aborted"
            /\ UNCHANGED <<l3, l2, l1, mdb>>
       ELSE /\ \E c3 \in EntityOutcomes(Level3, mdb), c2 \in EntityOutcomes(Level2, mdb),
                  c1 \in EntityOutcomes(Level1, mdb), named \in BOOLEAN :
                    /\ l3' = IF named
                             THEN AttachNames(metrics(Level3, mdb, c3), "facility_name")
                             ELSE metrics(Level3, mdb, c3)
                    /\ l2' = IF named
                             THEN AttachNames(metrics(Level2, mdb, c2), "deal_name")
                             ELSE metrics(Level2, mdb, c2)
                    /\ l1' = metrics(Level1, mdb, c1)
            /\ mdb' = mdb_after_pic_calc(mdb)
            /\ pc' = "levels"
            /\ UNCHANGED err
    /\ UNCHANGED <<mldb, rollup, mergeRest>>

MergeDealLevel ==
    /\ pc = "levels"
    /\ IF merge_raises(l3, l2, l1)
       THEN /\ err' = "KeyError"
            /\ pc' = "aborted"
            /\ UNCHANGED mldb
       ELSE /\ mldb' = merge_deal_level(l3, l2, l1)
            /\ pc' = "merged"
            /\ UNCHANGED err
    /\ UNCHANGED <<mdb, l3, l2, l1, rollup, mergeRest>>

AssignFundNetMetrics ==
    /\ pc = "merged"
    /\ rollup' = assign_fund_net_metrics(mldb, net)
    /\ pc' = "assigned"
    /\ UNCHANGED <<mdb, l3, l2, l1, mldb, err, mergeRest>>

NextMerge == LevelMetrics \/ MergeDealLevel \/ AssignFundNetMetrics

SpecMerge == InitMerge /\ [][NextMerge]_vars

(***************************************************************************)
(* Claims about metrics (checked under SpecMetrics)                        *)
(***************************************************************************)
MetricsDone == pc = "metrics"
MetricsReturned == pc = "metrics" /\ err = "none"

\* the ledger rows of group key k: a key holding a null forms no group
LedgerGroup(k) ==
    {i \in DOMAIN mdb : ~KeyHasNaN(k) /\ KeyOf(level, mdb[i]) = k}

RECURSIVE SumOf(_, _)
SumOf(I, sign) ==
    IF I = {} THEN 0
    ELSE LET i == CHOOSE i \in I : TRUE
             a == mdb[i].amount
         IN  (IF a * sign > 0 THEN a ELSE 0) + SumOf(I \ {i}, sign)

\* the groups of the ledger at the level metrics ran on: every key without a null
LedgerKeys == {k \in {KeyOf(level, mdb[i]) : i \in DOMAIN mdb} : ~KeyHasNaN(k)}

RowsOfKey(k) == {i \in DOMAIN metrics_df : metrics_df[i].key = k}

\* C1: every row returned by metrics has paid_in equal to the negated sum of the
\* amounts < 0 of its group and distr equal to the sum of the amounts > 0 of its
\* group (rows with amount 0 contribute to neither sum).
C1_PaidInDistrAreGroupSums ==
    MetricsReturned =>
        \A i \in DOMAIN metrics_df :
            LET g == LedgerGroup(metrics_df[i].key)
            IN  /\ metrics_df[i].paid_in = Num(-SumOf(g, -1))
                /\ metrics_df[i].distr = Num(SumOf(g, 1))

\* C2: for every row returned by metrics MOIC is the quotient distr / paid_in (a null
\* when a sum is null); a group with paid_in = 0 does not make metrics raise and is
\* returned with MOIC = inf, neither dropped nor special-cased.
C2_MoicIsQuotient ==
    MetricsDone =>
        /\ LedgerKeys # {} => err = "none"
        /\ \A i \in DOMAIN metrics_df :
              LET r == metrics_df[i]
              IN  IF IsNum(r.paid_in) /\ IsNum(r.distr)
                  THEN IF r.paid_in[1] # 0
                       THEN /\ Len(r.MOIC) = 2
                            /\ r.MOIC[2] > 0
                            /\ r.MOIC[1] * r.paid_in[1] = r.distr[1] * r.MOIC[2]
                       ELSE r.MOIC = (IF r.distr[1] > 0 THEN Inf ELSE NaNnum)
                  ELSE r.MOIC = NaNnum
        /\ \A k \in LedgerKeys :
              (SumOf(LedgerGroup(k), -1) = 0 /\ SumOf(LedgerGroup(k), 1) > 0)
                  => \E i \in RowsOfKey(k) :
                        metrics_df[i].paid_in = Num(0) /\ metrics_df[i].MOIC = Inf

C2_Witness ==
    /\ MetricsReturned
    /\ \E i \in DOMAIN metrics_df :
          /\ metrics_df[i].paid_in = Num(0)
          /\ metrics_df[i].distr = Num(2)
          /\ metrics_df[i].MOIC = Inf

\* C3: a group whose rows are all inflows, or all outflows, appears in the output of
\* metrics exactly once, its missing sum being 0, also when the whole ledger holds no
\* negative (or no positive) row.
C3_OneSidedGroupsAppear ==
    MetricsDone =>
        \A k \in LedgerKeys :
            LET neg == SumOf(LedgerGroup(k), -1)
                pos == SumOf(LedgerGroup(k), 1)
            IN  (neg = 0 /\ pos > 0) \/ (neg < 0 /\ pos = 0) =>
                    /\ err = "none"
                    /\ Cardinality(RowsOfKey(k)) = 1
                    /\ \A i \in RowsOfKey(k) :
                          /\ metrics_df[i].paid_in = Num(-neg)
                          /\ metrics_df[i].distr = Num(pos)

C3_Witness ==
    /\ MetricsReturned
    /\ Len(mdb) = 2
    /\ \A i \in DOMAIN mdb : mdb[i].amount > 0
    /\ \E i \in DOMAIN metrics_df :
          metrics_df[i].paid_in = Num(0) /\ metrics_df[i].distr = Num(2)

\* C4: a row of the output that comes only from the per-entity XIRR computation (its
\* entity has no group in the paid_in/distr aggregate) has paid_in = 0 and distr = 0,
\* not null.
C4_XirrOnlyRowsZeroFilled ==
    MetricsReturned =>
        \A i \in DOMAIN metrics_df :
            (~\E j \in DOMAIN mdb :
                  /\ mdb[j][level[1]] = metrics_df[i].key[1]
                  /\ mdb[j].amount # 0
                  /\ ~KeyHasNaN(KeyOf(level, mdb[j])))
                => metrics_df[i].paid_in = Num(0) /\ metrics_df[i].distr = Num(0)

(***************************************************************************)
(* Claims about the leverage pipeline (checked under SpecFund)             *)
(***************************************************************************)
FundLevelDone == pc \in {"fund_level", "fund_level_curve", "fees", "aborted"}
CurveDone == pc \in {"fund_level_curve", "fees"}
FeesDone == pc = "fees"

SamePosition(a, b) ==
    a.fund = b.fund /\ a.con_date = b.con_date /\ a.exit_date = b.exit_date

\* the row of fund_level a monthly row was expanded from
PositionOf(r) == CHOOSE j \in DOMAIN fund_level : SamePosition(fund_level[j], r)

\* a position that is not its fund's first row of fund_level
IsLaterDraw(j) == \E k \in 1..(j - 1) : fund_level[k].fund = fund_level[j].fund

CalendarMonthEnds ==
    {20230930, 20231031, 20231130, 20231231, 20240131, 20240229, 20240331, 20240430}

\* C6: for every financing position with draw date d and exit date e the monthly rows
\* are exactly the calendar month-ends m with d <= m <= e, one row per month-end when
\* the curve holds at most one point per curve name and month-end; the month-end
\* before the draw and a month-end after the exit never appear.
C6_RowsAreMonthEndsInWindow ==
    CurveDone =>
        \A j \in DOMAIN fund_level :
            LET p == fund_level[j]
                rows == {i \in DOMAIN fund_level_curve :
                            SamePosition(fund_level_curve[i], p)}
                want == {m \in CalendarMonthEnds : p.con_date <= m /\ m <= p.exit_date}
            IN  /\ {fund_level_curve[i].month_end : i \in rows} = want
                /\ CurveUnique(curvedb) => Cardinality(rows) = Cardinality(want)

C6_Witness ==
    /\ pc = "fund_level_curve"
    /\ CurveUnique(curvedb)
    /\ \E i \in DOMAIN fund_level_curve :
          /\ fund_level_curve[i].month_end = fund_level_curve[i].con_date
          /\ fund_level_curve[i].exit_date = 20240310
    /\ \E i \in DOMAIN fund_level_curve :
          fund_level_curve[i].month_end = fund_level_curve[i].exit_date
    /\ \E j \in DOMAIN fund_level :
          ~\E i \in DOMAIN fund_level_curve : SamePosition(fund_level_curve[i], fund_level[j])

\* C7: calc_monthly_fee emits exactly two cashflow rows per monthly row, for the same
\* fund: an interest row of amount finance_portion x all_in_rate / 12 and an
\* undrawn_fee row of amount -(undrawn x undrawn_fee_rate / 12); the output has twice
\* as many rows as the input and no other cashflow type.
C7_TwoFeeRowsPerMonthlyRow ==
    FeesDone =>
        LET n == Len(fund_level_curve)
        IN  /\ Len(fees) = 2 * n
            /\ \A i \in DOMAIN fees : fees[i].cashflow_type \in {"interest", "undrawn_fee"}
            /\ \A i \in 1..n :
                  LET r == fund_level_curve[i]
                      a == fees[i].amount
                      u == fees[n + i].amount
                  IN  /\ fees[i].cashflow_type = "interest"
                      /\ fees[i].fund = r.fund
                      /\ IF IsNum(r.all_in_rate)
                         THEN /\ Len(a) = 2 /\ a[2] > 0
                              /\ a[1] * 12 = r.finance_portion * r.all_in_rate[1] * a[2]
                         ELSE a = NaNnum
                      /\ fees[n + i].cashflow_type = "undrawn_fee"
                      /\ fees[n + i].fund = r.fund
                      /\ Len(u) = 2 /\ u[2] > 0
                      /\ u[1] * 12 = -(r.undrawn * r.undrawn_fee_rate[1]) * u[2]

C7_Witness ==
    /\ FeesDone
    /\ Len(fund_level_curve) >= 3
    /\ \E i \in DOMAIN fees : fees[i].cashflow_type = "interest" /\ fees[i].amount = <<-6250, 3>>
    /\ \E i \in DOMAIN fees :
          fees[i].cashflow_type = "undrawn_fee" /\ Len(fees[i].amount) = 2
              /\ fees[i].amount[1] # 0

\* the 15th of the calendar month after the month of date m
FifteenthOfNextMonth(m) ==
    LET y == m \div 10000
        mo == (m \div 100) % 100
    IN  IF mo = 12 THEN (y + 1) * 10000 + 115 ELSE y * 10000 + (mo + 1) * 100 + 15

\* C8: every financing cashflow row is dated at the payment date of its monthly row,
\* the 15th of the calendar month following the row's month-end, never the month-end
\* itself, for December and February month-ends too.
C8_PaymentDateIs15thOfNextMonth ==
    /\ CurveDone =>
          \A i \in DOMAIN fund_level_curve :
              fund_level_curve[i].payment_date
                  = FifteenthOfNextMonth(fund_level_curve[i].month_end)
    /\ FeesDone =>
          LET n == Len(fund_level_curve)
          IN  /\ Len(fees) = 2 * n
              /\ \A i \in 1..n :
                    LET m == fund_level_curve[i].month_end
                    IN  /\ fees[i].payment_date = FifteenthOfNextMonth(m)
                        /\ fees[n + i].payment_date = FifteenthOfNextMonth(m)
                        /\ fees[i].payment_date # m

C8_Witness ==
    /\ FeesDone
    /\ \E i \in DOMAIN fund_level_curve :
          fund_level_curve[i].month_end = 20231231
    /\ \E i \in DOMAIN fund_level_curve :
          fund_level_curve[i].month_end = 20240229
    /\ \E i \in DOMAIN fees : fees[i].payment_date = 20240115
    /\ \E i \in DOMAIN fees : fees[i].payment_date = 20240315

\* the interest rows whose position has a positive advance rate and whose monthly row
\* has a positive all-in rate
InterestRowsOfPositiveRates ==
    {i \in 1..Len(fund_level_curve) :
        /\ i \in DOMAIN fees
        /\ fees[i].cashflow_type = "interest"
        /\ IsNum(fund_level_curve[i].all_in_rate)
        /\ fund_level_curve[i].all_in_rate[1] > 0
        /\ fund_level[PositionOf(fund_level_curve[i])].advance_rate > 0}

\* C9 (as claimed): every interest row emitted from a ledger in the canonical sign
\* convention, with a positive advance rate and a positive all-in rate, has a positive
\* amount.
C9_InterestPositive ==
    FeesDone =>
        \A i \in InterestRowsOfPositiveRates :
            Len(fees[i].amount) = 2 /\ fees[i].amount[1] > 0

\* C9 (amended): every such interest row has a negative amount: finance_portion keeps
\* the negative sign of the contributions it is computed from.
C9_InterestNegative ==
    /\ FundLevelDone =>
          \A j \in DOMAIN fund_level :
              fund_level[j].advance_rate > 0 => fund_level[j].finance_portion < 0
    /\ FeesDone =>
          \A i \in InterestRowsOfPositiveRates :
              Len(fees[i].amount) = 2 /\ fees[i].amount[1] < 0 /\ fees[i].amount[2] > 0

C9_Witness ==
    /\ FeesDone
    /\ \A i \in DOMAIN mdb :
          IF mdb[i].cashflow_type = "contribution" THEN mdb[i].amount < 0
          ELSE mdb[i].amount > 0
    /\ \E i \in InterestRowsOfPositiveRates : fees[i].amount = <<-2125, 1>>

CurvePoints(c, m) ==
    {k \in DOMAIN curvedb : curvedb[k].curve = c /\ curvedb[k].asof = m}

\* C11: when the curve holds no point for a position's curve name at a month-end of
\* its window, the monthly row is emitted once with a null rate and a null all-in rate
\* (its fee rate, principal and undrawn balance as for any other month), its interest
\* cashflow row is emitted with a null amount and its undrawn_fee row with its usual
\* amount; the months that have a point carry that point's rate, for every fund.
C11_MissingCurvePointGivesNullRate ==
    /\ CurveDone =>
          \A j \in DOMAIN fund_level :
              LET p == fund_level[j]
              IN  \A m \in {x \in CalendarMonthEnds : p.con_date <= x /\ x <= p.exit_date} :
                      LET rows == {i \in DOMAIN fund_level_curve :
                                      /\ SamePosition(fund_level_curve[i], p)
                                      /\ fund_level_curve[i].month_end = m}
                          pts == CurvePoints(p.cost_of_funds_curve, m)
                      IN  /\ \A i \in rows :
                                /\ fund_level_curve[i].undrawn_fee_rate
                                       = Num(p.fund_undrawn_fee_bps)
                                /\ fund_level_curve[i].finance_portion = p.finance_portion
                                /\ fund_level_curve[i].undrawn = p.undrawn
                          /\ IF pts = {}
                             THEN /\ Cardinality(rows) = 1
                                  /\ \A i \in rows :
                                        /\ fund_level_curve[i].rate = NaNnum
                                        /\ fund_level_curve[i].all_in_rate = NaNnum
                             ELSE /\ Cardinality(rows) = Cardinality(pts)
                                  /\ \A i \in rows : \E k \in pts :
                                        /\ fund_level_curve[i].rate = Num(curvedb[k].rate)
                                        /\ fund_level_curve[i].all_in_rate
                                               = Num(curvedb[k].rate + p.fund_spread_bps_lev)
    /\ FeesDone =>
          LET n == Len(fund_level_curve)
          IN  /\ Len(fees) = 2 * n
              /\ \A i \in 1..n :
                    fund_level_curve[i].rate = NaNnum =>
                        /\ fees[i].cashflow_type = "interest"
                        /\ fees[i].amount = NaNnum
                        /\ fees[i].fund = fund_level_curve[i].fund
                        /\ fees[n + i].cashflow_type = "undrawn_fee"
                        /\ fees[n + i].amount = UndrawnFeeAmount(fund_level_curve[i])
                        /\ Len(fees[n + i].amount) = 2

C11_Witness ==
    /\ FeesDone
    /\ \E i, k \in DOMAIN fund_level_curve :
          /\ fund_level_curve[i].rate = NaNnum
          /\ fees[i].amount = NaNnum
          /\ SamePosition(fund_level_curve[i], fund_level_curve[k])
          /\ fund_level_curve[k].rate = Num(400)
          /\ Len(fees[k].amount) = 2
    /\ \E i \in DOMAIN fund_level_curve :
          /\ fund_level_curve[i].fund = "F2"
          /\ fund_level_curve[i].rate = Num(310)

(***************************************************************************)
(* Claims about the rate shock (checked under SpecShock)                   *)
(***************************************************************************)
ShockedDone == pc = "shocked"

\* C12: for the same positions, the schedule computed on the curve table with a
\* uniform shock added to every rate has the same rows in the same order as the
\* schedule computed on the unshocked table: every non-null rate and all_in_rate is
\* changed by exactly the shock, a null rate stays null, and undrawn_fee_rate,
\* financed principal, undrawn balance, month-end and payment date are unchanged.
C12_ShockShiftsAllInRateOnly ==
    ShockedDone =>
        /\ Len(shocked) = Len(fund_level_curve)
        /\ \A i \in DOMAIN fund_level_curve :
              LET a == fund_level_curve[i]
                  b == shocked[i]
              IN  /\ SamePosition(a, b)
                  /\ b.month_end = a.month_end
                  /\ b.payment_date = a.payment_date
                  /\ b.undrawn_fee_rate = a.undrawn_fee_rate
                  /\ b.finance_portion = a.finance_portion
                  /\ b.undrawn = a.undrawn
                  /\ IF IsNum(a.all_in_rate)
                     THEN /\ b.all_in_rate = Num(a.all_in_rate[1] + shock)
                          /\ b.rate = Num(a.rate[1] + shock)
                     ELSE b.all_in_rate = NaNnum /\ b.rate = NaNnum

C12_Witness ==
    /\ ShockedDone
    /\ shock = 25
    /\ \E i \in DOMAIN shocked :
          /\ fund_level_curve[i].all_in_rate = Num(500)
          /\ shocked[i].all_in_rate = Num(525)
          /\ shocked[i].undrawn_fee_rate = Num(25)
    /\ \E i \in DOMAIN shocked : shocked[i].all_in_rate = NaNnum

(***************************************************************************)
(* Claims about xirr (checked under SpecXirr and SpecXirrFair)             *)
(***************************************************************************)
XirrReturned == pc = "returned"

HasPosAndNeg(cf) ==
    (\E i \in DOMAIN cf : cf[i] > 0) /\ (\E i \in DOMAIN cf : cf[i] < 0)

\* C13: a call of xirr whose cashflows do not hold both a value > 0 and a value < 0
\* (all positive, all negative, all zero, or none at all) returns null without
\* running the solver and without raising.
C13_OneSignedSetReturnsNull ==
    (pc # "call" /\ ~HasPosAndNeg(call_cashflows)) =>
        /\ XirrReturned
        /\ irr = None
        /\ iter = 0
        /\ err = "none"

C13_Witness ==
    /\ XirrReturned
    /\ irr = None
    /\ Len(call_cashflows) = Len(call_dates)
    /\ Len(call_cashflows) = 2
    /\ \A i \in DOMAIN call_cashflows : call_cashflows[i] > 0

\* C14 (as claimed): a call of xirr whose cashflow and date sequences differ in
\* length fails with a DimensionMismatch error.
C14_LengthMismatchRaises ==
    (XirrReturned /\ Len(call_cashflows) # Len(call_dates)) => err = "DimensionMismatch"

\* C15: a call of xirr runs at most maxiter solver iterations and then returns, with
\* a rate or with null; no exception leaves xirr, whatever the solver does (overflow,
\* oscillation, exhausted iterations).
C15_XirrTerminatesWithoutRaising ==
    /\ [](/\ iter <= MaxIter
          /\ err = "none"
          /\ XirrReturned => (irr = None \/ irr = Rate \/ Len(irr) = 2))
    /\ <>XirrReturned

C15_Witness ==
    /\ XirrReturned
    /\ Len(call_cashflows) = Len(call_dates)
    /\ HasPosAndNeg(call_cashflows)
    /\ iter = MaxIter
    /\ irr = None

\* C16 (as claimed): for every cashflow set with a positive and a negative value xirr
\* returns a rate, and the rate is a root of the net present value.
C16_ValidSetGetsARoot ==
    (XirrReturned /\ xirr_valid(call_cashflows, call_dates)) =>
        /\ irr # None
        /\ Len(irr) = 2 => xnpv(irr, call_cashflows, call_dates) = <<0, 1>>

(***************************************************************************)
(* Claims about the hierarchy merge (checked under SpecMerge)              *)
(***************************************************************************)
MergeCalled == pc \in {"merged", "assigned"} \/ (pc = "aborted" /\ l1 # <<>>)
AssignDone == pc = "assigned"

\* C17 (as claimed): merge_deal_level applied to the three metric tables returns the
\* Facility rows, then the Deal rows, then the Fund rows, each block in its input
\* order: len(facility) + len(deal) + len(fund) rows, each labelled with its level,
\* gross_irr and gross_moic copied from xirr and MOIC, net_irr and net_moic null.
C17_StacksFacilityDealFund ==
    MergeCalled =>
        /\ err = "none"
        /\ Len(mldb) = Len(l3) + Len(l2) + Len(l1)
        /\ \A i \in DOMAIN mldb :
              LET src == IF i <= Len(l3) THEN l3[i]
                         ELSE IF i <= Len(l3) + Len(l2) THEN l2[i - Len(l3)]
                         ELSE l1[i - Len(l3) - Len(l2)]
                  lvl == IF i <= Len(l3) THEN "Facility"
                         ELSE IF i <= Len(l3) + Len(l2) THEN "Deal" ELSE "Fund"
              IN  /\ mldb[i].level = lvl
                  /\ mldb[i].id = src.key[1]
                  /\ mldb[i].gross_irr = src.xirr
                  /\ mldb[i].gross_moic = src.MOIC
                  /\ mldb[i].net_irr = PdNA
                  /\ mldb[i].net_moic = PdNA

\* the row of the net fund metrics for identifier f (the table has one row per fund)
NetRows(f) == {k \in DOMAIN net : net[k].key[1] = f}

\* C18 (as claimed): after assign_fund_net_metrics every Facility and Deal row has
\* net_irr = net_moic = N/A, and every Fund row has net_irr and net_moic equal to the
\* xirr and MOIC of the net row of its fund, N/A when there is none.
C18_NetEqualsNetRow ==
    AssignDone =>
        \A i \in DOMAIN rollup :
            LET r == rollup[i]
            IN  IF r.level = "Fund" /\ NetRows(r.id) # {}
                THEN \E k \in NetRows(r.id) :
                        r.net_irr = net[k].xirr /\ r.net_moic = net[k].MOIC
                ELSE r.net_irr = NA /\ r.net_moic = NA

\* C18 (amended): after assign_fund_net_metrics every Facility and Deal row has
\* net_irr = net_moic = N/A, also when its id is the id of a fund with net metrics;
\* every Fund row has net_irr and net_moic equal to the xirr and MOIC of the net row
\* of its fund where these are not null, and N/A where the value is null or the fund
\* has no net row.  The rows are those of the rollup, in the same order.
C18_NetEqualsNetRowOrNA ==
    AssignDone =>
        /\ Len(rollup) = Len(mldb)
        /\ \A i \in DOMAIN rollup :
              LET r == rollup[i]
              IN  /\ r.level = mldb[i].level /\ r.id = mldb[i].id
                  /\ IF r.level = "Fund" /\ NetRows(r.id) # {}
                     THEN \E k \in NetRows(r.id) :
                            /\ r.net_irr = (IF net[k].xirr = None THEN NA ELSE net[k].xirr)
                            /\ r.net_moic = (IF net[k].MOIC = NaNnum THEN NA
                                             ELSE net[k].MOIC)
                     ELSE r.net_irr = NA /\ r.net_moic = NA

C18_Witness ==
    /\ AssignDone
    /\ \E i \in DOMAIN rollup :
          /\ rollup[i].level = "Facility"
          /\ rollup[i].id = "F1"
          /\ NetRows("F1") # {}
          /\ rollup[i].net_irr = NA
    /\ \E i \in DOMAIN rollup :
          /\ rollup[i].level = "Fund"
          /\ rollup[i].net_irr = <<0, 1>>
          /\ rollup[i].net_moic = <<1, 1>>
    /\ \E i \in DOMAIN rollup :
          /\ rollup[i].level = "Fund"
          /\ NetRows(rollup[i].id) # {}
          /\ rollup[i].net_irr = NA

(***************************************************************************)
(* Further claims about metrics (checked under SpecMetrics)                *)
(***************************************************************************)
\* the distinct non-null fund values of the ledger
LedgerFunds == {mdb[i].fund : i \in DOMAIN mdb} \ {NaN}

\* C19: for group key [fund] the table metrics returns has exactly one row per
\* distinct non-null fund value of the ledger: every fund has a row, no fund has two,
\* and no row belongs to anything else, also for funds that have only inflows, only
\* outflows or only zero amounts.
C19_OneRowPerFund ==
    (MetricsReturned /\ level = Level1) =>
        /\ \A i \in DOMAIN metrics_df : metrics_df[i].key \in {<<f>> : f \in LedgerFunds}
        /\ \A f \in LedgerFunds : Cardinality(RowsOfKey(<<f>>)) = 1
        /\ Len(metrics_df) = Cardinality(LedgerFunds)

C19_Witness ==
    /\ MetricsReturned
    /\ level = Level1
    /\ Len(metrics_df) = 2
    /\ \E i \in DOMAIN mdb : mdb[i].fund = "F1" /\ mdb[i].amount = 0
    /\ \E i \in DOMAIN mdb : mdb[i].fund = "F2" /\ mdb[i].amount > 0
    /\ \E i \in DOMAIN metrics_df : metrics_df[i].key = <<"F1">>

negative_list == {"contribution"}

\* np.where(mask_neg, -df['amount'].abs(), df['amount'].abs())
SignedAmountNegate(mask_neg, amount) == IF mask_neg THEN -amount ELSE amount

SignedAmount(mask_neg, amount) == IF mask_neg THEN -Abs(amount) ELSE Abs(amount)

cash_flow_sign_convert(cleaned_df) ==
    IF ~HasColumn(cleaned_df, "cashflow_type") \/ ~HasColumn(cleaned_df, "amount")
    THEN cleaned_df
    ELSE [i \in DOMAIN cleaned_df |->
             [cleaned_df[i] EXCEPT
                 !.amount = SignedAmount(cleaned_df[i].cashflow_type \in negative_list, @)]]

\* df[df['cashflow_type'] != 'pik_interest']
adjust_pik(merged_db) ==
    IF ~HasColumn(merged_db, "cashflow_type") THEN merged_db
    ELSE SelectSeq(merged_db, LAMBDA r : r.cashflow_type # "pik_interest")

BpsPerUnit == 10000

FillNaZero(c) == IF c = NaNnum THEN Num(0) ELSE c

\* df.loc[df['amount'] < 0, 'amount'] *= 1 - (OID_bps + origination_fee_bps) * 0.0001;
\* the ledgers drawn keep the product a whole number
AdjustedAmountFeeOnly(amount, oid_bps, origination_fee_bps) ==
    IF amount < 0
    THEN (-amount * (oid_bps + origination_fee_bps)) \div BpsPerUnit
    ELSE amount

AdjustedAmount(amount, oid_bps, origination_fee_bps) ==
    IF amount < 0
    THEN (amount * (BpsPerUnit - (oid_bps + origination_fee_bps))) \div BpsPerUnit
    ELSE amount

adjust_fees(merged_db) ==
    IF ~HasColumn(merged_db, "amount") \/ ~HasColumn(merged_db, "OID_bps")
          \/ ~HasColumn(merged_db, "origination_fee_bps")
    THEN merged_db
    ELSE [i \in DOMAIN merged_db |->
             [merged_db[i] EXCEPT
                 !.OID_bps = FillNaZero(@),
                 !.origination_fee_bps = FillNaZero(@),
                 !.amount = AdjustedAmount(@, FillNaZero(merged_db[i].OID_bps)[1],
                                FillNaZero(merged_db[i].origination_fee_bps)[1])]]

adjust_cash_flow(merged_db) == adjust_fees(adjust_pik(merged_db))

\* the columns of the master ledger, and those of them that hold text
MasterColumns ==
    {"entity_id", "deal_id", "fund", "cashflow_type", "asof", "amount", "commitment",
     "cost_of_funds_curve", "spread_bps_lev", "undrawn_fee_bps", "advance_rate",
     "OID_bps", "origination_fee_bps"}
TextColumns == {"entity_id", "deal_id", "fund", "cashflow_type", "cost_of_funds_curve"}

\* fees.rename(columns={'payment_date': 'asof'}), every master column the fee table
\* lacks set to pd.NA, columns reordered as the master's
FeesAlignedNoRename(f, cols) ==
    [k \in cols |->
        IF k \in DOMAIN f THEN f[k]
        ELSE IF k = "asof" THEN NaT
        ELSE IF k \in TextColumns THEN NaN ELSE PdNA]

FeesAligned(f, cols) ==
    [k \in cols |->
        IF k = "asof" THEN f.payment_date
        ELSE IF k \in DOMAIN f THEN f[k]
        ELSE IF k \in TextColumns THEN NaN ELSE PdNA]

\* pd.concat([master_cashflow, fees_aligned], ignore_index=True)
stack_fund_fees_into_master(fee_tbl, master_cashflow) ==
    master_cashflow
        \o [i \in DOMAIN fee_tbl |-> FeesAligned(fee_tbl[i], MasterColumns)]

(***************************************************************************)
(* The amount column of the combined ledger holds whole amounts (master    *)
(* rows) and fee fractions <<n, d>> of hundredths x basis points with d a  *)
(* divisor of 12 (financing rows).  metrics reads both in the common unit  *)
(* 1 / (100 x 10,000 x 12) of a currency unit.                             *)
(***************************************************************************)
PercentPerUnit == 100
UnitsPerCurrency == PercentPerUnit * BpsPerUnit * MonthsPerYear

InLedgerUnits(tbl, n_master) ==
    [i \in DOMAIN tbl |->
        [tbl[i] EXCEPT !.amount =
            IF i <= n_master THEN @ * UnitsPerCurrency
            ELSE @[1] * (MonthsPerYear \div @[2])]]

(***************************************************************************)
(* Inputs of the ledger specification: cashflow rows as ingested, of any   *)
(* sign, with the facility's fee terms and the fund's leverage terms       *)
(* attached (merge_db), and the full curve table                           *)
(***************************************************************************)
MaxRawRows == 3

FacilityTerms ==
    [E1 |-> [OID_bps |-> Num(2500), origination_fee_bps |-> NaNnum],
     E2 |-> [OID_bps |-> Num(2500), origination_fee_bps |-> Num(2500)]]

RawRowChoices ==
    {<<"E1", "contribution", 20231130, -4>>, <<"E1", "contribution", 20231130, 4>>,
     <<"E1", "contribution", 20231130, 0>>, <<"E1", "contribution", 20240210, -8>>,
     <<"E1", "exit_fee", 20240131, 4>>, <<"E1", "exit_fee", 20240310, -4>>,
     <<"E1", "pik_interest", 20231231, 4>>,
     <<"E2", "contribution", 20231215, -4>>, <<"E2", "exit_fee", 20240310, 4>>}

RawRow(lev, c) ==
    LET r == FundRow(lev, c)
    IN  [k \in MasterColumns |->
            IF k \in DOMAIN r THEN r[k] ELSE FacilityTerms[c[1]][k]]

RawRows(lev) == {RawRow(lev, c) : c \in RawRowChoices}

FullCurve == CHOOSE t \in CurveTables : CurveUnique(t)

InitLedger ==
    /\ pc = "ingested"
    /\ \E lev \in LeverageTables :
          cash_flow \in UNION {[1..n -> RawRows(lev)] : n \in 0..MaxRawRows}
    /\ curvedb = FullCurve
    /\ columns = LedgerColumns
    /\ cashflow_df_cleaned = <<>>
    /\ combined = <<>>
    /\ mdb = <<>>
    /\ level = <<>>
    /\ metrics_df = <<>>
    /\ err = "none"
    /\ fund_db = <<>>
    /\ fund_level = <<>>
    /\ fund_level_curve = <<>>
    /\ fees = <<>>
    /\ ShockIdle /\ XirrIdle /\ MergeIdle

ledgerRest == <<level, metrics_df, err, curvedb, fund_db, fund_level, fund_level_curve,
                fees, shockVars, xirrVars, columns, cash_flow, l3, l2, mldb, rollup>>

\* cash_flow_clean (main.py 51); the model's identifiers hold no letter o, which
\* _clean_entity_id would replace
CashFlowClean ==
    /\ pc = "ingested"
    /\ cashflow_df_cleaned' = cash_flow_sign_convert(cash_flow)
    /\ pc' = "signed"
    /\ UNCHANGED <<mdb, combined, l1, net, ledgerRest>>

\* the sign rule applied to a ledger it was already applied to
SignConvertAgain ==
    /\ pc = "signed"
    /\ cashflow_df_cleaned' = cash_flow_sign_convert(cashflow_df_cleaned)
    /\ pc' = "resigned"
    /\ UNCHANGED <<mdb, combined, l1, net, ledgerRest>>

\* main.py 71
AdjustCashFlow ==
    /\ pc \in {"signed", "resigned"}
    /\ mdb' = adjust_cash_flow(cashflow_df_cleaned)
    /\ pc' = "ledger"
    /\ UNCHANGED <<cashflow_df_cleaned, combined, l1, net, ledgerRest>>

StackFundFees ==
    /\ pc = "fees"
    /\ combined' = stack_fund_fees_into_master(fees, mdb)
    /\ pc' = "stacked"
    /\ UNCHANGED <<mdb, cashflow_df_cleaned, l1, net, ledgerRest>>

\* metrics(['fund']) on the ledger before and after the injection
NetMetrics ==
    /\ pc = "stacked"
    /\ LET before == InLedgerUnits(mdb, Len(mdb))
           after == InLedgerUnits(combined, Len(mdb))
       IN  IF metrics_raises(Level1, before) \/ metrics_raises(Level1, after)
           THEN /\ err' = "KeyError"
                /\ pc' = "aborted"
                /\ UNCHANGED <<l1, net>>
           ELSE /\ \E c1 \in EntityOutcomes(Level1, before),
                      c2 \in EntityOutcomes(Level1, after) :
                        /\ l1' = metrics(Level1, before, c1)
                        /\ net' = metrics(Level1, after, c2)
                /\ pc' = "net"
                /\ UNCHANGED err
    /\ UNCHANGED <<mdb, cashflow_df_cleaned, combined, level, metrics_df, curvedb, fund_db,
                   fund_level, fund_level_curve, fees, shockVars, xirrVars, columns,
                   cash_flow, l3, l2, mldb, rollup>>

NextLedger ==
    \/ CashFlowClean \/ SignConvertAgain \/ AdjustCashFlow
    \/ CleanDataFund \/ ReturnFundInfo \/ ExpandAndJoinCurve \/ CalcMonthlyFee
    \/ StackFundFees \/ NetMetrics

SpecLedger == InitLedger /\ [][NextLedger]_vars

(***************************************************************************)
(* Claims about the ledger's lifecycle                                     *)
(***************************************************************************)
\* a ledger in the sign convention: no contribution above zero, no other row below
Canonical(db) ==
    \A i \in DOMAIN db :
        IF db[i].cashflow_type \in negative_list THEN db[i].amount <= 0
        ELSE db[i].amount >= 0

\* C21: sign normalization is idempotent: applying _cash_flow_sign_convert to a
\* ledger it was already applied to returns that ledger, and applying it to a
\* ledger already in the canonical sign convention changes nothing.
C21_SignConvertIdempotent ==
    [][/\ (pc = "signed" /\ pc' = "resigned"
              => cashflow_df_cleaned' = cashflow_df_cleaned)
       /\ (pc = "ingested" /\ pc' = "signed" /\ Canonical(cash_flow)
              => cashflow_df_cleaned' = cash_flow)]_vars

\* the rule was applied twice to a ledger in which it had turned the sign of a
\* contribution and of a row of another type
C21_Witness ==
    /\ pc = "resigned"
    /\ \E i, j \in DOMAIN cash_flow :
          /\ cash_flow[i].cashflow_type = "contribution" /\ cash_flow[i].amount > 0
          /\ cashflow_df_cleaned[i].amount < 0
          /\ cash_flow[j].cashflow_type # "contribution" /\ cash_flow[j].amount < 0
          /\ cashflow_df_cleaned[j].amount > 0

SignedOnce == pc # "ingested"
Adjusted == pc \notin {"ingested", "signed", "resigned"}
Stacked == pc \in {"stacked", "net"}

\* the sign of the amount of row i of the combined ledger
CombinedSign(i) ==
    LET a == combined[i].amount
    IN  IF i <= Len(mdb) THEN a ELSE IF a = NaNnum THEN 0 ELSE a[1]

StrictSign(type, a) == IF type \in negative_list THEN a < 0 ELSE a > 0
WeakSign(type, a) == IF type \in negative_list THEN a <= 0 ELSE a >= 0

\* C22 (as stated): in the ledger after sign normalization, after the OID and
\* origination fee adjustment and after the financing rows are appended, every
\* contribution row has a negative amount and every other row a positive amount.
C22_EveryRowCanonical ==
    /\ SignedOnce =>
          \A i \in DOMAIN cashflow_df_cleaned :
              StrictSign(cashflow_df_cleaned[i].cashflow_type, cashflow_df_cleaned[i].amount)
    /\ Adjusted =>
          \A i \in DOMAIN mdb : StrictSign(mdb[i].cashflow_type, mdb[i].amount)
    /\ Stacked =>
          \A i \in DOMAIN combined :
              StrictSign(combined[i].cashflow_type, CombinedSign(i))

\* C22 (amended): in each of these ledgers no ingested contribution row is above
\* zero and no other ingested row below zero; an amount is zero after sign
\* normalization exactly when it was ingested as zero; the appended financing rows
\* are outside the convention.
C22_MasterRowsCanonical ==
    /\ SignedOnce =>
          \A i \in DOMAIN cashflow_df_cleaned :
              /\ WeakSign(cashflow_df_cleaned[i].cashflow_type, cashflow_df_cleaned[i].amount)
              /\ cashflow_df_cleaned[i].amount = 0 <=> cash_flow[i].amount = 0
    /\ Adjusted =>
          \A i \in DOMAIN mdb : WeakSign(mdb[i].cashflow_type, mdb[i].amount)
    /\ Stacked =>
          \A i \in 1..Len(mdb) :
              WeakSign(combined[i].cashflow_type, CombinedSign(i))

\* financing rows were appended to a ledger holding a zero contribution and an
\* adjusted contribution, and an appended interest row is below zero
C22_Witness ==
    /\ Stacked
    /\ \E i, j \in 1..Len(mdb) :
          /\ combined[i].cashflow_type = "contribution" /\ CombinedSign(i) = 0
          /\ combined[j].cashflow_type = "contribution" /\ CombinedSign(j) < 0
    /\ \E i \in (Len(mdb) + 1)..Len(combined) :
          combined[i].cashflow_type = "interest" /\ CombinedSign(i) < 0

FeeColumns == {"asof", "cashflow_type", "fund", "amount"}

\* C23: stack_fund_fees_into_master only appends: the combined ledger has
\* len(master) + len(fees) rows, its first len(master) rows are the master rows in
\* their order, and the row appended for a fee carries the fee's payment date as
\* asof, its cashflow type, fund and amount, and a null in every other column.
C23_StackOnlyAppends ==
    Stacked =>
        /\ Len(combined) = Len(mdb) + Len(fees)
        /\ \A i \in DOMAIN mdb : combined[i] = mdb[i]
        /\ \A j \in DOMAIN fees :
              LET r == combined[Len(mdb) + j]
              IN  /\ r.asof = fees[j].payment_date
                  /\ r.cashflow_type = fees[j].cashflow_type
                  /\ r.fund = fees[j].fund
                  /\ r.amount = fees[j].amount
                  /\ \A k \in MasterColumns \ FeeColumns :
                        IF k \in TextColumns THEN r[k] = NaN ELSE r[k] = PdNA

\* fee rows of two payment dates were appended to a master ledger of several rows
C23_Witness ==
    /\ Stacked
    /\ Len(mdb) >= 2
    /\ \E i, j \in DOMAIN fees : fees[i].payment_date # fees[j].payment_date

NetDone == pc = "net"

\* the appended financing rows of fund f, in ledger units
FinancingRows(f) ==
    LET after == InLedgerUnits(combined, Len(mdb))
    IN  SelectSeq(SubSeq(after, Len(mdb) + 1, Len(after)), LAMBDA r : r.fund = f)

RowOfFund(tbl, f) == CHOOSE i \in DOMAIN tbl : tbl[i].key = <<f>>

MaxCoreRows == 2

CoreNetTables ==
    UNION {{metrics(Level1, L, c) : c \in EntityOutcomes(Level1, L)} :
              L \in [1..1 -> NetLedgerRows]}

InitCore ==
    /\ pc = "ledger"
    /\ \E lev \in LeverageTables :
          mdb \in UNION {[1..n -> FundRows(lev)] : n \in 0..MaxCoreRows}
    /\ curvedb \in CurveTables
    /\ net \in CoreNetTables
    /\ l3 = <<>> /\ l2 = <<>> /\ l1 = <<>> /\ mldb = <<>> /\ rollup = <<>>
    /\ level = <<>>
    /\ metrics_df = <<>>
    /\ err = "none"
    /\ fund_db = <<>>
    /\ fund_level = <<>>
    /\ fund_level_curve = <<>>
    /\ fees = <<>>
    /\ ShockIdle /\ XirrIdle /\ LedgerIdle

NextCore ==
    \/ Metrics
    \/ CleanDataFund \/ ReturnFundInfo \/ ExpandAndJoinCurve \/ CalcMonthlyFee
    \/ LevelMetrics \/ MergeDealLevel \/ AssignFundNetMetrics

SpecCore == InitCore /\ [][NextCore]_vars

MaxColumnLedger == 1

ColumnSets == {LedgerColumns} \cup {LedgerColumns \ {c} : c \in LedgerColumns}

KeepColumns(db, cols) ==
    [i \in DOMAIN db |->
        [k \in (DOMAIN db[i] \ LedgerColumns) \cup cols |-> db[i][k]]]

InitColumns ==
    /\ pc = "ledger"
    /\ \E L \in UNION {[1..n -> LedgerRows] : n \in 0..MaxColumnLedger},
          cols \in ColumnSets :
            /\ mdb = KeepColumns(L, cols)
            /\ columns = cols
    /\ cash_flow = <<>> /\ cashflow_df_cleaned = <<>> /\ combined = <<>>
    /\ level = <<>>
    /\ metrics_df = <<>>
    /\ err = "none"
    /\ curvedb = <<>>
    /\ fund_db = <<>>
    /\ fund_level = <<>>
    /\ fund_level_curve = <<>>
    /\ fees = <<>>
    /\ ShockIdle /\ XirrIdle /\ MergeIdle

SpecColumns == InitColumns /\ [][NextMetrics]_vars

\* C25: when a column one portion of metrics needs (the amount column, a grouping
\* column of the level, or asof) is absent from the ledger, metrics does not
\* abort, and the table it returns holds the results of the other portion: the
\* monetary sums of every group when only asof is absent.  (Stated for a ledger
\* holding a row without a null identifier.)
C25_MissingColumnTolerated ==
    (/\ MetricsDone
     /\ (columns \cap (Range(level) \cup {"amount", "asof"}))
            # Range(level) \cup {"amount", "asof"}
     /\ \E i \in DOMAIN mdb :
           \A k \in DOMAIN mdb[i] \cap {"entity_id", "deal_id", "fund"} : mdb[i][k] # NaN)
        => /\ err = "none"
           /\ "asof" \notin columns =>
                 \A k \in Range(GroupKeys(level, mdb)) :
                     \E i \in DOMAIN metrics_df : metrics_df[i].key = k

(***************************************************************************)
(* Further claims about the hierarchy merge (checked under SpecMerge)      *)
(***************************************************************************)
\* the tables passed are those metrics returned, with no column added
DirectOutputs ==
    /\ \A i \in DOMAIN l3 : "facility_name" \notin DOMAIN l3[i]
    /\ \A i \in DOMAIN l2 : "deal_name" \notin DOMAIN l2[i]

\* C26: merge_deal_level accepts the outputs of metrics directly: applied, as
\* main.py does, to metrics at the facility, deal and fund levels of a ledger, it
\* completes without error and returns one hierarchy row per metrics row.
C26_MergeAcceptsMetricsOutputs ==
    (MergeCalled /\ DirectOutputs) =>
        /\ err = "none"
        /\ Len(mldb) = Len(l3) + Len(l2) + Len(l1)

OneNetRowPerFund == \A j, k \in DOMAIN net : net[j].key[1] = net[k].key[1] => j = k

\* C29 (as stated): assign_fund_net_metrics changes only net_irr and net_moic: with
\* at most one net row per fund the output has the rows of the rollup in their
\* order, and level, id, name, paid_in, distributed, gross_irr and gross_moic of
\* every row equal their input values, also where gross_irr is null.
C29_OnlyNetFieldsChange ==
    (AssignDone /\ OneNetRowPerFund) =>
        /\ Len(rollup) = Len(mldb)
        /\ \A i \in DOMAIN rollup :
              /\ rollup[i].level = mldb[i].level
              /\ rollup[i].id = mldb[i].id
              /\ rollup[i].name = mldb[i].name
              /\ rollup[i].paid_in = mldb[i].paid_in
              /\ rollup[i].distributed = mldb[i].distributed
              /\ rollup[i].gross_irr = mldb[i].gross_irr
              /\ rollup[i].gross_moic = mldb[i].gross_moic

\* C29 (amended): with at most one net row per fund the output has the rows of the
\* rollup in their order, and level, id, name, paid_in, distributed, gross_irr and
\* gross_moic of every row equal their input values where these are not null; a
\* null input value comes out as N/A.
C29_OnlyNetFieldsChangeOrNA ==
    (AssignDone /\ OneNetRowPerFund) =>
        /\ Len(rollup) = Len(mldb)
        /\ \A i \in DOMAIN rollup :
              LET Text(c) == IF c = NaN THEN "N/A" ELSE c
                  Cell(c) == IF c = PdNA THEN NA ELSE c
              IN  /\ rollup[i].level = Text(mldb[i].level)
                  /\ rollup[i].id = Text(mldb[i].id)
                  /\ rollup[i].name = Text(mldb[i].name)
                  /\ rollup[i].paid_in = Cell(mldb[i].paid_in)
                  /\ rollup[i].distributed = Cell(mldb[i].distributed)
                  /\ rollup[i].gross_irr = Cell(mldb[i].gross_irr)
                  /\ rollup[i].gross_moic = Cell(mldb[i].gross_moic)

\* the rollup held a row with a null gross_irr and a row with a rate, and a Fund
\* row took the metrics of its net row
C29_Witness ==
    /\ AssignDone /\ OneNetRowPerFund
    /\ \E i, j \in DOMAIN mldb :
          /\ mldb[i].gross_irr = None /\ rollup[i].gross_irr = NA
          /\ mldb[j].gross_irr # None /\ rollup[j].gross_irr = mldb[j].gross_irr
    /\ \E i \in DOMAIN rollup :
          rollup[i].level = "Fund" /\ NetRows(rollup[i].id) # {}

(***************************************************************************)
(* The leverage schedule on ledgers with an open position: facility E3 of  *)
(* fund F1 draws before E1 and has no exit_fee row                         *)
(***************************************************************************)
MaxOpenRows == 3

OpenRowChoices ==
    {<<"E3", "contribution", 20231115, -1>>,
     <<"E1", "contribution", 20231130, -2>>, <<"E1", "exit_fee", 20240131, 1>>,
     <<"E2", "contribution", 20231215, -1>>, <<"E2", "exit_fee", 20240310, 1>>}

InitOpen ==
    /\ pc = "ledger"
    /\ \E lev \in LeverageTables :
          mdb \in UNION {[1..n -> {FundRow(lev, c) : c \in OpenRowChoices}] :
                            n \in 0..MaxOpenRows}
    /\ curvedb \in CurveTables
    /\ level = <<>>
    /\ metrics_df = <<>>
    /\ err = "none"
    /\ fund_db = <<>>
    /\ fund_level = <<>>
    /\ fund_level_curve = <<>>
    /\ fees = <<>>
    /\ ShockIdle /\ XirrIdle /\ MergeIdle /\ LedgerIdle

SpecOpen == InitOpen /\ [][NextFund]_vars

(***************************************************************************)
(* Further claims about the leverage schedule                              *)
(***************************************************************************)
FundDbDone == pc \notin {"ledger"}
HasOpenPosition == \E i \in DOMAIN fund_db : fund_db[i].exit_date = NaT

\* the positions with every open position given an exit date (after every date of
\* the ledger), as an ordinary draw has one
OrdinaryExit == MkDate(2024, 12, 31)
AsOrdinaryDraws(fdb) ==
    [i \in DOMAIN fdb |->
        IF fdb[i].exit_date = NaT THEN [fdb[i] EXCEPT !.exit_date = OrdinaryExit]
        ELSE fdb[i]]

\* C27: a financing position with no exit date yields no MonthlyAccrualRow and no
\* financing cashflow row, the leverage pipeline does not abort, and the rows of
\* the fund's other positions (their undrawn balances included) are those they
\* would be if the open position were an ordinary draw of that fund.
C27_OpenPositionLeavesOthers ==
    (FundDbDone /\ HasOpenPosition) =>
        /\ pc # "aborted"
        /\ \A i \in DOMAIN fund_level_curve : fund_level_curve[i].exit_date # NaT
        /\ FundLevelDone =>
              fund_level = SelectSeq(return_fund_info(AsOrdinaryDraws(fund_db)),
                                     LAMBDA r : r.exit_date # OrdinaryExit)

\* C28: clean_data_fund returns one row per entity_id: no entity_id appears in more
\* than one output row, whatever the number of contribution rows and exit_fee rows
\* of the entity.
C28_OneRowPerEntity ==
    FundDbDone =>
        \A i, j \in DOMAIN fund_db :
            fund_db[i].entity_id = fund_db[j].entity_id => i = j

====
